---- MODULE Spec2Model ----
(***************************************************************************)
(* Model of the resumable step engine of idioteque                         *)
(* (packages/idioteque/src/worker.ts) running against the in-memory store  *)
(* (createMemoryStore).                                                    *)
(*                                                                         *)
(* Strings that the engine inspects character by character (task ids,      *)
(* function ids, step keys) are sequences of one-character strings, so     *)
(* that startsWith, split and join are computed as the code computes them. *)
(* A JavaScript undefined task id is the empty sequence.                   *)
(***************************************************************************)
EXTENDS Integers, Sequences, FiniteSets, TLC

VARIABLES
    mount,        \* the functions given to worker.mount
    mode,         \* executionMode of the mount
    store,        \* MemoryStoreState: executionId -> taskId -> entry
    net,          \* envelopes handed to dispatcher.dispatch so far
    issued,       \* number of execution ids generated so far
    alsEnabled,   \* enabled flag of pathAsyncLocalStore
    inv,          \* the running mount.execute invocation of each slot
    slots,        \* slots in which an invocation may run
    calls,        \* history: number of invocations of each step callback
    deliveries,   \* number of redeliveries and retries of the transport
    last,         \* history: the latest engine event
    pending,      \* envelopes the transport still has to deliver
    faults,       \* number of dispatch calls the dispatcher will still fail
    reported,     \* the errors onError was invoked with
    returned      \* history: summary of the latest mount.execute that ended

vars == <<mount, mode, store, net, issued, alsEnabled, inv, slots, calls,
          deliveries, last, pending, faults, reported, returned>>

-----------------------------------------------------------------------------
(* Bounds *)

\* deliveries of an envelope beyond the one the transport owes
MaxDeliveries == 3

\* functions given to one call of worker.mount
MaxFunctions == 3

\* dispatch calls that fail in a behaviour with an unreliable dispatcher
MaxFaults == 1

\* deliveries beyond the one the transport owes when two invocations may
\* run at a time
MaxRedeliveries == 1

\* invocations of one callback after which the transport delivers nothing
\* more, when two invocations may run at a time or a handler starts its
\* execute calls together
MaxCalls == 4

-----------------------------------------------------------------------------
(* Values *)

EMPTY_EXECUTION_RESULT == "<empty_execution_result>"

Undefined == "undefined"

NoTaskId == <<>>

Interrupt == "WorkerInterrupt"

HandlerError == "Error"

Timestamp == 1

\* the values randomUUID() returns, in order
ExecIds == <<"e1">>

AllSlots == {1}

-----------------------------------------------------------------------------
(* String operations on sequences of characters *)

\* String.prototype.startsWith
StartsWith(s, p) ==
    /\ Len(p) <= Len(s)
    /\ SubSeq(s, 1, Len(p)) = p

\* s.split(":")
RECURSIVE Split(_)
Split(s) ==
    IF \A n \in 1..Len(s) : s[n] /= ":"
    THEN <<s>>
    ELSE LET n == CHOOSE m \in 1..Len(s) :
                      /\ s[m] = ":"
                      /\ \A l \in 1..(m - 1) : s[l] /= ":"
         IN  <<SubSeq(s, 1, n - 1)>> \o Split(SubSeq(s, n + 1, Len(s)))

\* parts.join(":")
RECURSIVE Join(_)
Join(parts) ==
    IF parts = <<>> THEN <<>>
    ELSE IF Len(parts) = 1 THEN parts[1]
    ELSE parts[1] \o <<":">> \o Join(Tail(parts))

\* variant: the leading ":" of a top-level task id is kept
FullTaskId_Unstripped(path, taskId) == path \o <<":">> \o taskId

\* `${path}:${taskId}`.replace(/^:/, "")
FullTaskId(path, taskId) ==
    LET joined == path \o <<":">> \o taskId
    IN  IF joined[1] = ":" THEN Tail(joined) ELSE joined

\* context.taskId?.startsWith(fullTaskId)
Targets(ctxTaskId, fullTaskId) ==
    /\ ctxTaskId /= NoTaskId
    /\ StartsWith(ctxTaskId, fullTaskId)

\* variant: the continuation always goes to the function
ParentTaskId_Root(fullTaskId) == Split(fullTaskId)[1]

\* fullTaskId.split(":").slice(0, -1).join(":") || undefined
ParentTaskId(fullTaskId) ==
    LET parts == Split(fullTaskId)
    IN  Join(SubSeq(parts, 1, Len(parts) - 1))

\* result === undefined ? EMPTY_EXECUTION_RESULT : result
ToStored(result) ==
    IF result = Undefined THEN EMPTY_EXECUTION_RESULT ELSE result

\* executionResult === EMPTY_EXECUTION_RESULT ? undefined : executionResult
FromStored(executionResult) ==
    IF executionResult = EMPTY_EXECUTION_RESULT THEN Undefined
    ELSE executionResult

-----------------------------------------------------------------------------
(* The in-memory store (createMemoryStore) *)

\* JavaScript values that are falsy, as tagged strings
Falsy == {"", "0", "false", "null"}

\* entry[1].value used as a condition
Truthy(v) == v /= Undefined /\ v \notin Falsy

EmptyTasks == [p \in {} |-> p]

TransactionEntry == [value |-> Undefined, transaction |-> TRUE]

ValueEntry(v) == [value |-> v, transaction |-> FALSE]

\* variant: the execution is not recorded
beginExecution_Skipped(st, e) == st

\* store[executionId] = {}
beginExecution(st, e) ==
    [x \in DOMAIN st \cup {e} |-> IF x = e THEN EmptyTasks ELSE st[x]]

\* !!store[executionId] || false
isExecutionInProgress(st, e) == e \in DOMAIN st

\* store[executionId]?.[taskId]?.value
getExecutionTaskResult(st, e, p) ==
    IF e \in DOMAIN st /\ p \in DOMAIN st[e] THEN st[e][p].value
    ELSE Undefined

\* Object.fromEntries(entries.filter(entry => entry[1].value).map(...))
getExecutionTaskResults(st, e) ==
    IF e \in DOMAIN st
    THEN LET keep == {p \in DOMAIN st[e] : Truthy(st[e][p].value)}
         IN  [p \in keep |-> st[e][p].value]
    ELSE EmptyTasks

\* store[executionId]?.[taskId]?.transaction || false
isExecutionTaskInProgress(st, e, p) ==
    IF e \in DOMAIN st /\ p \in DOMAIN st[e] THEN st[e][p].transaction
    ELSE FALSE

\* store[executionId][taskId] = { transaction: true }
beginExecutionTask(st, e, p) ==
    [st EXCEPT ![e] = (p :> TransactionEntry) @@ @]

\* store[executionId][taskId] = { value }
commitExecutionTaskResult(st, e, p, v) ==
    [st EXCEPT ![e] = (p :> ValueEntry(v)) @@ @]

\* variant: the whole store is cleared
disposeExecution_Cleared(st, e) == [x \in {} |-> st[x]]

\* variant: the execution is kept
disposeExecution_Kept(st, e) == st

\* delete store[executionId]
disposeExecution(st, e) == [x \in DOMAIN st \ {e} |-> st[x]]

-----------------------------------------------------------------------------
(* Functions and handlers.  A handler is the list of its execute calls in  *)
(* source order: key, the enclosing execute call (0 for the handler        *)
(* itself), the try/catch the caller puts around the call ("none", "only": *)
(* around this call alone, "rest": around this call and the rest of the    *)
(* enclosing body), the values the callback may return, and whether it may *)
(* throw.  A handler whose own code may throw has throws set.              *)

Step(key, parent, try, returns, throws) ==
    [key |-> key, parent |-> parent, try |-> try, returns |-> returns,
     throws |-> throws]

\* worker.createFunction(id, eventFilter, handler)
createFunction(id, types, steps) ==
    [id |-> id, types |-> types, steps |-> steps, throws |-> FALSE]

\* func1 of the worker tests: astep1, then try { astep2; tail } catch
MountSequential ==
    << createFunction(<<"f">>, {"foo"},
          << Step(<<"s", "1">>, 0, "none", {"r1", "r2"}, FALSE),
             Step(<<"s", "2">>, 0, "rest", {"r3"}, TRUE) >>),
       createFunction(<<"g">>, {"bar"}, <<>>) >>

\* a step inside try/catch whose callback calls execute again
MountNested ==
    << createFunction(<<"f">>, {"foo"},
          << Step(<<"o">>, 0, "only", {"r1"}, FALSE),
             Step(<<"i">>, 1, "none", {Undefined}, TRUE) >>) >>

\* the README loop: keys notify-friend-1 ... notify-friend-10
MountLoop ==
    << createFunction(<<"f">>, {"foo"},
          << Step(<<"n", "1">>, 0, "none", {"r1"}, TRUE),
             Step(<<"n", "1", "0">>, 0, "none", {"r2"}, FALSE) >>) >>

\* two functions for the same event, the id of one a prefix of the other
MountSimultaneous ==
    << createFunction(<<"a">>, {"foo"}, <<>>),
       createFunction(<<"a", "b">>, {"foo"}, <<>>) >>

\* try { await execute("t", ...) } catch {}; await execute("u", ...)
MountCatch ==
    << createFunction(<<"f">>, {"foo"},
          << Step(<<"t">>, 0, "only", {"r1"}, TRUE),
             Step(<<"u">>, 0, "none", {"r2"}, FALSE) >>) >>

\* two functions for the same event; the handler of the second may throw
MountPair ==
    << createFunction(<<"a">>, {"foo"}, <<>>),
       [createFunction(<<"b">>, {"foo"}, <<>>) EXCEPT !.throws = TRUE] >>

Mounts ==
    {MountSequential, MountNested, MountLoop, MountSimultaneous, MountCatch,
     MountPair}

\* the same functions with callbacks and handlers that never throw
WithoutThrows(functions) ==
    [k \in 1..Len(functions) |->
        [functions[k] EXCEPT
            !.throws = FALSE,
            !.steps = [s \in 1..Len(functions[k].steps) |->
                          [functions[k].steps[s] EXCEPT !.throws = FALSE]]]]

Modes == {"ISOLATED", "UNTIL_ERROR"}

Event == [type |-> "foo"]

\* functions.filter((func) => func.eventFilter(event))
RECURSIVE filterFunctionsByEventAndContext(_, _)
filterFunctionsByEventAndContext(functions, event) ==
    IF functions = <<>> THEN <<>>
    ELSE (IF event.type \in Head(functions).types
          THEN <<Head(functions)>> ELSE <<>>)
         \o filterFunctionsByEventAndContext(Tail(functions), event)

-----------------------------------------------------------------------------
(* Envelopes: JSON.stringify({ event, context }) drops undefined members,  *)
(* and parsing reads a missing member as undefined.                        *)

Context(e, ts, taskId) ==
    [executionId |-> e, timestamp |-> ts, taskId |-> taskId]

NoContext == [executionId |-> "", timestamp |-> 0, taskId |-> NoTaskId]

\* JSON.stringify of a context
StringifyContext(ctx) ==
    IF ctx.taskId = NoTaskId
    THEN [executionId |-> ctx.executionId, timestamp |-> ctx.timestamp]
    ELSE [executionId |-> ctx.executionId, timestamp |-> ctx.timestamp,
          taskId |-> ctx.taskId]

\* JSON.stringify({ event, context })
Stringify(event, ctx) ==
    IF ctx = NoContext THEN [event |-> event]
    ELSE [event |-> event, context |-> StringifyContext(ctx)]

\* the context member of the parsed WorkerPublishRequestBody
ParseContext(envelope) ==
    IF "context" \notin DOMAIN envelope THEN NoContext
    ELSE Context(envelope.context.executionId, envelope.context.timestamp,
                 IF "taskId" \in DOMAIN envelope.context
                 THEN envelope.context.taskId ELSE NoTaskId)

-----------------------------------------------------------------------------
(* One call of execute for one function inside one invocation ("run") *)

targetFunctions == filterFunctionsByEventAndContext(mount, Event)

\* the execute call number s of func; 0 is the call made by
\* dispatchEventToFunctions with func.id and the handler as callback
StepAt(func, s) ==
    IF s = 0 THEN Step(func.id, 0, "none", {Undefined}, func.throws)
    ELSE func.steps[s]

\* the next execute call in the body of call `parent` after call `after`
NextCall(func, parent, after) ==
    LET later == {j \in 1..Len(func.steps) :
                      func.steps[j].parent = parent /\ j > after}
    IN  IF later = {} THEN 0
        ELSE CHOOSE j \in later : \A l \in later : j <= l

NewRun ==
    [pc |-> "call", cur |-> 0, tid |-> <<>>, frames |-> <<>>,
     res |-> Undefined, why |-> "", stop |-> 0, pub |-> <<>>,
     writes |-> <<>>, caught |-> {}, entered |-> {}, got |-> <<>>,
     tails |-> <<>>]

Top(frames) == frames[Len(frames)]

Pop(frames) == SubSeq(frames, 1, Len(frames) - 1)

RunEnded(r) == r.pc \in {"done", "interrupted", "rejected"}

\* pathAsyncLocalStore.getStore() || ""
getStore(enabled, r) ==
    IF enabled /\ r.frames /= <<>> THEN Top(r.frames).tid ELSE <<>>

\* history: the body of call `step` ran to its end; the end of the body of
\* the handler is its tail, called with the values its execute calls
\* returned
RanToEnd(r, step) ==
    IF step = 0 THEN [r EXCEPT !.tails = Append(@, r.got)] ELSE r

\* the call r.cur returned to the body that made it: the body goes on to
\* its next execute call, or to its end
AfterReturn(func, r) ==
    IF r.frames = <<>> THEN [r EXCEPT !.pc = "done"]
    ELSE LET nxt == NextCall(func, Top(r.frames).step, r.cur)
         IN  IF nxt = 0
             THEN [RanToEnd(r, Top(r.frames).step) EXCEPT
                      !.pc = "callback", !.cur = Top(r.frames).step]
             ELSE [r EXCEPT !.pc = "call", !.cur = nxt]

\* the catch block of the try around call r.cur ran
AfterCatch(func, r) ==
    IF StepAt(func, r.cur).try = "only" THEN AfterReturn(func, r)
    ELSE [r EXCEPT !.pc = "callback", !.cur = Top(r.frames).step]

\* variant: the wrapper passes every error on to the awaiting code
WrapperRejectsExecute_Always(err) == TRUE

\* variant: the wrapper passes no error on to the awaiting code
WrapperRejectsExecute_Never(err) == FALSE

\* the catch of the execute wrapper given to callbacks: executeReject(err)
\* unless err instanceof WorkerInterrupt
WrapperRejectsExecute(err) == err /= Interrupt

\* the call r.cur threw err
RECURSIVE Throw(_, _, _)
Throw(func, r, err) ==
    IF r.frames = <<>>
    THEN [r EXCEPT !.pc = IF err = Interrupt THEN "interrupted"
                          ELSE "rejected"]
    ELSE LET outer == [r EXCEPT !.frames = Pop(r.frames),
                                !.cur = Top(r.frames).step,
                                !.tid = Top(r.frames).tid]
         IN  IF ~WrapperRejectsExecute(err)
             THEN \* reject(err): the enclosing execute throws, the body
                  \* that awaits r.cur is never resumed
                  Throw(func, outer, err)
             ELSE IF StepAt(func, r.cur).try /= "none"
             THEN AfterCatch(func, [r EXCEPT !.caught = @ \cup {err}])
             ELSE \* the body rejects: .catch(reject)
                  Throw(func, outer, err)

\* executionCache[taskId], else store.getExecutionTaskResult
getExecutionTaskResultCached(executionCache, st, e, taskId) ==
    IF taskId \in DOMAIN executionCache /\ executionCache[taskId] /= Undefined
    THEN executionCache[taskId]
    ELSE getExecutionTaskResult(st, e, taskId)

EmptyStore == [x \in {} |-> EmptyTasks]

NoCalls == [x \in {} |-> 0]

\* an invocation of mount.execute; top, st0, calls0, pubs, tails, order,
\* threw and kept are history: whether it was given no context, the store
\* and the callback counts when it reached line 304, the contexts it handed
\* to the dispatcher, the tail calls of its handlers, the task ids of the
\* callbacks it invoked, in order, whether one of them threw, and the store
\* it disposed of
IdleInv ==
    [pc |-> "idle", ctx |-> NoContext, head |-> NoContext, queue |-> <<>>,
     cache |-> EmptyTasks, runs |-> <<>>, top |-> FALSE, st0 |-> EmptyStore,
     calls0 |-> NoCalls, pubs |-> <<>>, tails |-> <<>>, order |-> <<>>,
     threw |-> FALSE, kept |-> EmptyStore]

RECURSIVE RunTails(_)
RunTails(runs) ==
    IF runs = <<>> THEN <<>> ELSE Head(runs).tails \o RunTails(Tail(runs))

\* history of a whole run of one mount, kept when two runs are compared:
\* the task ids of the step callbacks invoked, in order, over all
\* invocations, the store that was disposed of, and whether the run ended
\* with an empty store
NoRun == [all |-> <<>>, kept |-> EmptyStore, disposed |-> FALSE]

\* the task ids of `order` that are not function ids
StepsOf(order) ==
    SelectSeq(order, LAMBDA t : \A k \in 1..Len(mount) : t /= mount[k].id)

\* history: what mount.execute did when it ended with `outcome`, leaving
\* store st and callback counts c.  The fields of the second line are
\* recorded when two runs are compared (phase > 0): the history of the
\* current run, the continuations the transport holds in publish order, and
\* the history of the first run
Returned(v, outcome, st, c) ==
    [outcome |-> outcome, ctx |-> v.ctx, top |-> v.top, st0 |-> v.st0,
     st1 |-> st, calls0 |-> v.calls0, calls1 |-> c, pubs |-> v.pubs,
     tails |-> v.tails \o RunTails(v.runs), order |-> v.order,
     threw |-> v.threw,
     phase |-> returned.phase,
     all |-> IF returned.phase > 0 THEN returned.all \o StepsOf(v.order)
             ELSE <<>>,
     kept |-> IF v.kept /= EmptyStore THEN v.kept ELSE returned.kept,
     fifo |-> IF returned.phase > 0
              THEN (IF v.top \/ returned.fifo = <<>> THEN returned.fifo
                    ELSE Tail(returned.fifo)) \o v.pubs
              ELSE <<>>,
     first |-> returned.first]

NotReturned ==
    [outcome |-> "none", ctx |-> NoContext, top |-> FALSE, st0 |-> EmptyStore,
     st1 |-> EmptyStore, calls0 |-> NoCalls, calls1 |-> NoCalls,
     pubs |-> <<>>, tails |-> <<>>, order |-> <<>>, threw |-> FALSE,
     phase |-> 0, all |-> <<>>, kept |-> EmptyStore, fifo |-> <<>>,
     first |-> NoRun]

\* the envelope the transport delivered to invocation v
Inbound(v, event) == Stringify(event, IF v.top THEN NoContext ELSE v.ctx)

Event0 == [type |-> "init", slot |-> 0, run |-> 0, step |-> 0, tid |-> <<>>,
           taskId |-> NoTaskId, value |-> Undefined]

\* history: an engine event of run k of invocation i about execute call
\* `step` with full task id tid; taskId is the inbound or enqueued task id
Ev(type, i, k, step, tid, taskId, value) ==
    [type |-> type, slot |-> i, run |-> k, step |-> step, tid |-> tid,
     taskId |-> taskId, value |-> value]

Bump(c, key) ==
    IF key \in DOMAIN c THEN [c EXCEPT ![key] = @ + 1] ELSE (key :> 1) @@ c

Count(c, key) == IF key \in DOMAIN c THEN c[key] ELSE 0

-----------------------------------------------------------------------------
(* Initial state: a constructed worker with an empty store, one mount *)

Constructed ==
    /\ store = [x \in {} |-> EmptyTasks]
    /\ net = {}
    /\ issued = 0
    /\ alsEnabled = FALSE
    /\ slots = AllSlots
    /\ inv = [i \in AllSlots |-> IdleInv]
    /\ calls = [x \in {} |-> 0]
    /\ deliveries = 0
    /\ last = Event0
    /\ pending = {}
    /\ reported = <<>>
    /\ returned = NotReturned

\* a reliable dispatcher
Init ==
    /\ mount \in Mounts
    /\ mode \in Modes
    /\ faults = 0
    /\ Constructed

\* variant: the continuation carries the inbound context unchanged
ContinuationContext_Inbound(context, taskId) == context

\* variant: the continuation is stamped anew
ContinuationContext_Restamped(context, taskId) ==
    [context EXCEPT !.taskId = taskId, !.timestamp = @ + 1]

\* { ...context, taskId }
ContinuationContext(context, taskId) == [context EXCEPT !.taskId = taskId]

\* generateExecutionId(): an id never returned before
generateExecutionId(n) == ExecIds[n + 1]

-----------------------------------------------------------------------------
(* worker.publish(event) of a top-level event *)

Publish ==
    /\ Stringify(Event, NoContext) \notin net
    /\ net' = net \cup {Stringify(Event, NoContext)}
    /\ pending' = pending \cup {Stringify(Event, NoContext)}
    /\ last' = Ev("publish", 0, 0, 0, <<>>, NoTaskId, Undefined)
    /\ UNCHANGED <<mount, mode, store, issued, alsEnabled, inv, slots, calls,
                   deliveries, faults, reported, returned>>

(* The transport delivers an envelope: one it still has to deliver, or one *)
(* it delivered before.  mount.process(data) -> mount.execute(event,       *)
(* context), up to the first store call after beginExecution               *)
Execute(i, envelope) ==
    /\ inv[i].pc = "idle"
    /\ envelope \in pending \/ deliveries < MaxDeliveries
    /\ targetFunctions /= <<>>
    /\ LET given == ParseContext(envelope)
       IN  IF given = NoContext
           THEN /\ issued < Len(ExecIds)
                /\ LET context == Context(generateExecutionId(issued),
                                          Timestamp, NoTaskId)
                   IN  /\ store' = beginExecution(store, context.executionId)
                       /\ inv' = [inv EXCEPT ![i] =
                              [IdleInv EXCEPT !.pc = "prefetch",
                                              !.ctx = context,
                                              !.top = TRUE,
                                              !.st0 = store',
                                              !.calls0 = calls]]
                       /\ last' = Ev("execute", i, 0, 0, <<>>, NoTaskId,
                                     Undefined)
                /\ issued' = issued + 1
           ELSE /\ inv' = [inv EXCEPT ![i] =
                       [IdleInv EXCEPT !.pc = "prefetch", !.ctx = given,
                                       !.st0 = store, !.calls0 = calls]]
                /\ last' = Ev("execute", i, 0, 0,
                              <<>>, given.taskId, Undefined)
                /\ UNCHANGED <<store, issued>>
    /\ pending' = pending \ {envelope}
    /\ deliveries' = IF envelope \in pending THEN deliveries
                     ELSE deliveries + 1
    /\ UNCHANGED <<mount, mode, net, alsEnabled, slots, calls, faults,
                   reported, returned>>

(* const executionCache = await store.getExecutionTaskResults(...);        *)
(* const queue = [context]                                                 *)
Prefetch(i) ==
    /\ inv[i].pc = "prefetch"
    /\ inv' = [inv EXCEPT ![i].pc = "loop",
                          ![i].cache = getExecutionTaskResults(
                                           store, inv[i].ctx.executionId),
                          ![i].queue = <<inv[i].ctx>>]
    /\ last' = Ev("prefetch", i, 0, 0, <<>>, inv[i].ctx.taskId, Undefined)
    /\ UNCHANGED <<mount, mode, store, net, issued, alsEnabled, slots, calls,
                   deliveries, pending, faults, reported, returned>>

\* variant: the functions are run without asking the store whether the
\* execution is in progress
Shift_Unchecked(i) ==
    /\ inv[i].pc = "loop"
    /\ IF inv[i].queue = <<>>
       THEN /\ inv' = [inv EXCEPT ![i] = IdleInv]
            /\ returned' = Returned(inv[i], "resolved", store, calls)
            /\ last' = Ev("resolved", i, 0, 0, <<>>, inv[i].ctx.taskId,
                          Undefined)
       ELSE /\ inv' = [inv EXCEPT
                   ![i].queue = Tail(@),
                   ![i].head = Head(inv[i].queue),
                   ![i].pc = "running",
                   ![i].runs = [k \in 1..Len(targetFunctions) |-> NewRun]]
            /\ last' = Ev("dispatch", i, 0, 0, <<>>,
                          Head(inv[i].queue).taskId, Undefined)
            /\ UNCHANGED returned
    /\ UNCHANGED <<mount, mode, store, net, issued, alsEnabled, slots, calls,
                   deliveries, pending, faults, reported>>

\* variant: the head of the queue is read and left in the queue
Shift_Peeked(i) ==
    /\ inv[i].pc = "loop"
    /\ IF inv[i].queue = <<>>
       THEN /\ inv' = [inv EXCEPT ![i] = IdleInv]
            /\ returned' = Returned(inv[i], "resolved", store, calls)
            /\ last' = Ev("resolved", i, 0, 0, <<>>, inv[i].ctx.taskId,
                          Undefined)
       ELSE LET head == Head(inv[i].queue)
            IN  IF ~isExecutionInProgress(store, head.executionId)
                THEN /\ inv' = [inv EXCEPT ![i].head = head,
                                           ![i].runs = <<>>]
                     /\ last' = Ev("skipped", i, 0, 0, <<>>, head.taskId,
                                   Undefined)
                     /\ UNCHANGED returned
                ELSE /\ inv' = [inv EXCEPT
                            ![i].head = head,
                            ![i].pc = "running",
                            ![i].runs = [k \in 1..Len(targetFunctions)
                                            |-> NewRun]]
                     /\ last' = Ev("dispatch", i, 0, 0, <<>>, head.taskId,
                                   Undefined)
                     /\ UNCHANGED returned
    /\ UNCHANGED <<mount, mode, store, net, issued, alsEnabled, slots, calls,
                   deliveries, pending, faults, reported>>

(* while ((head = queue.shift())): dispatchEventToFunctions up to the      *)
(* start of every function's execute call; mount.execute returns when the  *)
(* queue is empty                                                          *)
Shift(i) ==
    /\ inv[i].pc = "loop"
    /\ IF inv[i].queue = <<>>
       THEN /\ inv' = [inv EXCEPT ![i] = IdleInv]
            /\ returned' = Returned(inv[i], "resolved", store, calls)
            /\ last' = Ev("resolved", i, 0, 0, <<>>, inv[i].ctx.taskId,
                          Undefined)
       ELSE LET head == Head(inv[i].queue)
            IN  IF ~isExecutionInProgress(store, head.executionId)
                THEN /\ inv' = [inv EXCEPT ![i].queue = Tail(@),
                                           ![i].head = head,
                                           ![i].runs = <<>>]
                     /\ last' = Ev("skipped", i, 0, 0, <<>>, head.taskId,
                                   Undefined)
                     /\ UNCHANGED returned
                ELSE /\ inv' = [inv EXCEPT
                            ![i].queue = Tail(@),
                            ![i].head = head,
                            ![i].pc = "running",
                            ![i].runs = [k \in 1..Len(targetFunctions)
                                            |-> NewRun]]
                     /\ last' = Ev("dispatch", i, 0, 0, <<>>, head.taskId,
                                   Undefined)
                     /\ UNCHANGED returned
    /\ UNCHANGED <<mount, mode, store, net, issued, alsEnabled, slots, calls,
                   deliveries, pending, faults, reported>>

-----------------------------------------------------------------------------
(* execute(context, event, enqueueTask, taskId, callback, executionCache)  *)
(* of run k of invocation i, one action per store call, callback or        *)
(* enqueue                                                                 *)

Func(k) == targetFunctions[k]

Running(i, k, pc) ==
    /\ inv[i].pc = "running"
    /\ k \in 1..Len(inv[i].runs)
    /\ inv[i].runs[k].pc = pc

\* the effect of enqueueTask(taskId) on the dispatcher
Dispatched(i, taskId) ==
    IF mode = "UNTIL_ERROR" THEN net
    ELSE net \cup {Stringify(Event, ContinuationContext(inv[i].ctx, taskId))}

\* the effect of enqueueTask(taskId) on what the transport has to deliver
Handed(i, taskId) ==
    IF mode = "UNTIL_ERROR" THEN pending
    ELSE pending
             \cup {Stringify(Event, ContinuationContext(inv[i].ctx, taskId))}

\* history: the contexts the invocation handed to the dispatcher
Pubs(i, taskId) ==
    IF mode = "UNTIL_ERROR" THEN inv[i].pubs
    ELSE Append(inv[i].pubs, ContinuationContext(inv[i].ctx, taskId))

\* the effect of enqueueTask(taskId) on the queue of mount.execute
Queued(i, taskId) ==
    IF mode = "UNTIL_ERROR"
    THEN Append(inv[i].queue, ContinuationContext(inv[i].ctx, taskId))
    ELSE inv[i].queue

(* lines 129-135: compute the full task id; when the inbound task id       *)
(* starts with it, invoke the callback inside pathAsyncLocalStore.run      *)
ExecuteCall(i, k) ==
    /\ Running(i, k, "call")
    /\ LET r == inv[i].runs[k]
           func == Func(k)
           path == getStore(alsEnabled, r)
           fullTaskId == FullTaskId(path, StepAt(func, r.cur).key)
           e == inv[i].head.executionId
       IN  IF Targets(inv[i].head.taskId, fullTaskId)
           THEN LET first == NextCall(func, r.cur, 0)
                    in == [r EXCEPT !.frames = Append(@, [step |-> r.cur,
                                                       tid |-> fullTaskId]),
                                    !.tid = fullTaskId,
                                    !.entered = @ \cup {r.cur}]
                IN  /\ inv' = [inv EXCEPT
                          ![i].order = Append(@, fullTaskId),
                          ![i].runs[k] =
                              IF first = 0
                              THEN [RanToEnd(in, r.cur) EXCEPT
                                       !.pc = "callback"]
                              ELSE [in EXCEPT !.pc = "call", !.cur = first]]
                    /\ alsEnabled' = TRUE
                    /\ calls' = Bump(calls, <<e, fullTaskId>>)
                    /\ last' = Ev("enter", i, k, r.cur, fullTaskId,
                                  inv[i].head.taskId, Undefined)
           ELSE /\ inv' = [inv EXCEPT ![i].runs[k].tid = fullTaskId,
                                      ![i].runs[k].pc = "getResult"]
                /\ last' = Ev("pass", i, k, r.cur,
                              fullTaskId, inv[i].head.taskId,
                              Undefined)
                /\ UNCHANGED <<alsEnabled, calls>>
    /\ UNCHANGED <<mount, mode, store, net, issued, slots, deliveries,
                   pending, faults, reported, returned>>

(* lines 200-212: a committed result is returned to the caller *)
GetResult(i, k) ==
    /\ Running(i, k, "getResult")
    /\ LET r == inv[i].runs[k]
           executionResult == getExecutionTaskResultCached(
               inv[i].cache, store, inv[i].head.executionId, r.tid)
       IN  IF executionResult /= Undefined
           THEN /\ inv' = [inv EXCEPT ![i].runs[k] =
                       AfterReturn(Func(k),
                           [r EXCEPT !.got = Append(@,
                               [step |-> r.cur,
                                value |-> FromStored(executionResult)])])]
                /\ last' = Ev("hit", i, k, r.cur, r.tid, inv[i].head.taskId,
                              FromStored(executionResult))
           ELSE /\ inv' = [inv EXCEPT ![i].runs[k].pc = "isInProgress"]
                /\ last' = Ev("miss", i, k, r.cur, r.tid, inv[i].head.taskId,
                              Undefined)
    /\ UNCHANGED <<mount, mode, store, net, issued, alsEnabled, slots, calls,
                   deliveries, pending, faults, reported, returned>>

\* variant: the in-progress marker is not honoured
CheckInProgress_Ignored(i, k) ==
    /\ Running(i, k, "isInProgress")
    /\ inv' = [inv EXCEPT ![i].runs[k].pc = "begin"]
    /\ last' = Ev("free", i, k, inv[i].runs[k].cur, inv[i].runs[k].tid,
                  inv[i].head.taskId, Undefined)
    /\ UNCHANGED <<mount, mode, store, net, issued, alsEnabled, slots, calls,
                   deliveries, pending, faults, reported, returned>>

(* lines 214-221: a task in progress interrupts the handler *)
CheckInProgress(i, k) ==
    /\ Running(i, k, "isInProgress")
    /\ LET r == inv[i].runs[k]
       IN  IF isExecutionTaskInProgress(store, inv[i].head.executionId, r.tid)
           THEN /\ inv' = [inv EXCEPT ![i].runs[k] =
                       Throw(Func(k), [r EXCEPT !.why = "in progress",
                                                  !.stop = r.cur],
                             Interrupt)]
                /\ last' = Ev("in progress", i, k, r.cur,
                              r.tid, inv[i].head.taskId,
                              Undefined)
           ELSE /\ inv' = [inv EXCEPT ![i].runs[k].pc = "begin"]
                /\ last' = Ev("free", i, k, r.cur, r.tid, inv[i].head.taskId,
                              Undefined)
    /\ UNCHANGED <<mount, mode, store, net, issued, alsEnabled, slots, calls,
                   deliveries, pending, faults, reported, returned>>

(* line 224: store.beginExecutionTask *)
BeginTask(i, k) ==
    /\ Running(i, k, "begin")
    /\ LET r == inv[i].runs[k]
           e == inv[i].head.executionId
       IN  IF e \in DOMAIN store
           THEN /\ store' = beginExecutionTask(store, e, r.tid)
                /\ inv' = [inv EXCEPT
                       ![i].runs[k].pc = "enqueueBegin",
                       ![i].runs[k].writes =
                           Append(@, [op |-> "begin", tid |-> r.tid,
                                      value |-> Undefined])]
                /\ last' = Ev("begin", i, k, r.cur, r.tid, inv[i].head.taskId,
                              Undefined)
           ELSE \* store[executionId] is undefined: TypeError
                /\ inv' = [inv EXCEPT ![i].runs[k] =
                       Throw(Func(k), r, HandlerError)]
                /\ last' = Ev("store error", i, k, r.cur,
                              r.tid, inv[i].head.taskId,
                              Undefined)
                /\ UNCHANGED store
    /\ UNCHANGED <<mount, mode, net, issued, alsEnabled, slots, calls,
                   deliveries, pending, faults, reported, returned>>

(* lines 226-229: enqueueTask(fullTaskId), then the Interrupt *)
EnqueueBegin(i, k) ==
    /\ Running(i, k, "enqueueBegin")
    /\ LET r == inv[i].runs[k]
           sent == [r EXCEPT !.why = "triggered", !.stop = r.cur,
                             !.pub = Append(@, ContinuationContext(
                                                   inv[i].ctx, r.tid))]
       IN  \/ /\ net' = Dispatched(i, r.tid)
              /\ pending' = Handed(i, r.tid)
              /\ inv' = [inv EXCEPT
                     ![i].queue = Queued(i, r.tid),
                     ![i].pubs = Pubs(i, r.tid),
                     ![i].runs[k] = Throw(Func(k), sent, Interrupt)]
              /\ last' = Ev("enqueue", i, k, r.cur, r.tid, r.tid, Undefined)
              /\ UNCHANGED faults
           \/ \* dispatcher.dispatch rejects: publish and enqueueTask throw
              /\ mode = "ISOLATED"
              /\ faults > 0
              /\ faults' = faults - 1
              /\ inv' = [inv EXCEPT ![i].runs[k] =
                     Throw(Func(k), r, HandlerError)]
              /\ last' = Ev("dispatch error", i, k, r.cur, r.tid, r.tid,
                            Undefined)
              /\ UNCHANGED <<net, pending>>
    /\ alsEnabled' = IF mode = "UNTIL_ERROR" THEN alsEnabled ELSE FALSE
    /\ UNCHANGED <<mount, mode, store, issued, slots, calls, deliveries,
                   reported, returned>>


(* lines 138-177: the callback of the entered call settles *)
CallbackSettles(i, k) ==
    /\ Running(i, k, "callback")
    /\ LET r == inv[i].runs[k]
           func == Func(k)
           step == StepAt(func, r.cur)
           outer == [r EXCEPT !.frames = Pop(r.frames),
                              !.tid = Top(r.frames).tid]
       IN  \/ \E result \in step.returns :
                /\ inv' = [inv EXCEPT ![i].runs[k] =
                       [outer EXCEPT !.pc = "commit", !.res = result]]
                /\ last' = Ev("resolve", i, k, r.cur,
                              outer.tid, inv[i].head.taskId,
                              result)
           \/ /\ step.throws
              /\ inv' = [inv EXCEPT
                     ![i].threw = TRUE,
                     ![i].runs[k] = Throw(func, outer, HandlerError)]
              /\ last' = Ev("throw", i, k, r.cur,
                            outer.tid, inv[i].head.taskId,
                            Undefined)
    /\ UNCHANGED <<mount, mode, store, net, issued, alsEnabled, slots, calls,
                   deliveries, pending, faults, reported, returned>>

(* lines 180-186: commitExecutionTaskResultCached *)
Commit(i, k) ==
    /\ Running(i, k, "commit")
    /\ LET r == inv[i].runs[k]
           e == inv[i].head.executionId
           value == ToStored(r.res)
       IN  IF e \in DOMAIN store
           THEN /\ store' = commitExecutionTaskResult(store, e, r.tid, value)
                /\ inv' = [inv EXCEPT
                       ![i].cache = (r.tid :> value) @@ @,
                       ![i].runs[k].pc = "enqueueCommit",
                       ![i].runs[k].writes =
                           Append(@, [op |-> "commit", tid |-> r.tid,
                                      value |-> value])]
                /\ last' = Ev("commit", i, k, r.cur, r.tid, inv[i].head.taskId,
                              value)
           ELSE \* store[executionId] is undefined: TypeError
                /\ inv' = [inv EXCEPT
                       ![i].cache = (r.tid :> value) @@ @,
                       ![i].runs[k] = Throw(Func(k), r, HandlerError)]
                /\ last' = Ev("store error", i, k, r.cur,
                              r.tid, inv[i].head.taskId,
                              Undefined)
                /\ UNCHANGED store
    /\ UNCHANGED <<mount, mode, net, issued, alsEnabled, slots, calls,
                   deliveries, pending, faults, reported, returned>>

(* lines 188-197: enqueueTask(parent task id), then the Interrupt *)
EnqueueCommit(i, k) ==
    /\ Running(i, k, "enqueueCommit")
    /\ LET r == inv[i].runs[k]
           nextTaskId == ParentTaskId(r.tid)
           sent == [r EXCEPT !.why = "committed", !.stop = r.cur,
                             !.pub = Append(@, ContinuationContext(
                                                   inv[i].ctx, nextTaskId))]
       IN  \/ /\ net' = Dispatched(i, nextTaskId)
              /\ pending' = Handed(i, nextTaskId)
              /\ inv' = [inv EXCEPT
                     ![i].queue = Queued(i, nextTaskId),
                     ![i].pubs = Pubs(i, nextTaskId),
                     ![i].runs[k] = Throw(Func(k), sent, Interrupt)]
              /\ last' = Ev("enqueue", i, k, r.cur, r.tid, nextTaskId,
                            Undefined)
              /\ UNCHANGED faults
           \/ \* dispatcher.dispatch rejects: publish and enqueueTask throw
              /\ mode = "ISOLATED"
              /\ faults > 0
              /\ faults' = faults - 1
              /\ inv' = [inv EXCEPT ![i].runs[k] =
                     Throw(Func(k), r, HandlerError)]
              /\ last' = Ev("dispatch error", i, k, r.cur, r.tid, nextTaskId,
                            Undefined)
              /\ UNCHANGED <<net, pending>>
    /\ alsEnabled' = IF mode = "UNTIL_ERROR" THEN alsEnabled ELSE FALSE
    /\ UNCHANGED <<mount, mode, store, issued, slots, calls, deliveries,
                   reported, returned>>

\* mount.process rejected: the transport delivers the envelope again, until
\* it gives up
Retried(i) ==
    IF deliveries < MaxDeliveries THEN pending \cup {Inbound(inv[i], Event)}
    ELSE pending

Retries == IF deliveries < MaxDeliveries THEN deliveries + 1 ELSE deliveries

\* variant: Interrupts are dropped from the rejected results
RECURSIVE Errors_WithoutInterrupts(_)
Errors_WithoutInterrupts(runs) ==
    IF runs = <<>> THEN <<>>
    ELSE (IF Head(runs).pc = "rejected" THEN <<HandlerError>> ELSE <<>>)
         \o Errors_WithoutInterrupts(Tail(runs))

\* the reasons of the rejected results of Promise.allSettled, in order
RECURSIVE Errors(_)
Errors(runs) ==
    IF runs = <<>> THEN <<>>
    ELSE (IF Head(runs).pc = "interrupted" THEN <<Interrupt>>
          ELSE IF Head(runs).pc = "rejected" THEN <<HandlerError>>
          ELSE <<>>) \o Errors(Tail(runs))

(* lines 65-88 and 338-344: every function settled; throw the first error, *)
(* else dispose; an Interrupt continues the loop of mount.execute          *)
Settle(i) ==
    /\ inv[i].pc = "running"
    /\ \A k \in 1..Len(inv[i].runs) : RunEnded(inv[i].runs[k])
    /\ LET errors == Errors(inv[i].runs)
           e == inv[i].head.executionId
           continued == [inv EXCEPT ![i].pc = "loop",
                                    ![i].runs = <<>>,
                                    ![i].tails = @ \o RunTails(inv[i].runs)]
       IN  IF Len(errors) > 0
           THEN IF errors[1] = Interrupt
                THEN /\ inv' = continued
                     /\ last' = Ev("suspended", i, 0, 0, <<>>,
                                   inv[i].head.taskId, Undefined)
                     /\ UNCHANGED <<store, pending, returned, deliveries>>
                ELSE \* mount.execute rejects; the transport retries
                     /\ inv' = [inv EXCEPT ![i] = IdleInv]
                     /\ returned' = Returned(inv[i], "rejected", store, calls)
                     /\ pending' = Retried(i)
                     /\ deliveries' = Retries
                     /\ last' = Ev("rejected", i, 0, 0, <<>>,
                                   inv[i].head.taskId, Undefined)
                     /\ UNCHANGED store
           ELSE IF e \in DOMAIN store
                THEN /\ store' = disposeExecution(store, e)
                     /\ inv' = [continued EXCEPT ![i].kept =
                                   IF returned.phase > 0 THEN store ELSE @]
                     /\ last' = Ev("dispose", i, 0, 0,
                                   <<>>, inv[i].head.taskId,
                                   Undefined)
                     /\ UNCHANGED <<pending, returned, deliveries>>
                ELSE \* Execution not found, cannot dispose
                     /\ inv' = [inv EXCEPT ![i] = IdleInv]
                     /\ returned' = Returned(inv[i], "rejected", store, calls)
                     /\ pending' = Retried(i)
                     /\ deliveries' = Retries
                     /\ last' = Ev("rejected", i, 0, 0, <<>>,
                                   inv[i].head.taskId, Undefined)
                     /\ UNCHANGED store
    /\ UNCHANGED <<mount, mode, net, issued, alsEnabled, slots, calls,
                   faults, reported>>

-----------------------------------------------------------------------------

Next ==
    \/ Publish
    \/ \E i \in slots : \E envelope \in net : Execute(i, envelope)
    \/ \E i \in slots : Prefetch(i)
    \/ \E i \in slots : Shift(i)
    \/ \E i \in slots : Settle(i)
    \/ \E i \in slots : \E k \in 1..Len(mount) : ExecuteCall(i, k)
    \/ \E i \in slots : \E k \in 1..Len(mount) : GetResult(i, k)
    \/ \E i \in slots : \E k \in 1..Len(mount) : CheckInProgress(i, k)
    \/ \E i \in slots : \E k \in 1..Len(mount) : BeginTask(i, k)
    \/ \E i \in slots : \E k \in 1..Len(mount) : EnqueueBegin(i, k)
    \/ \E i \in slots : \E k \in 1..Len(mount) : CallbackSettles(i, k)
    \/ \E i \in slots : \E k \in 1..Len(mount) : Commit(i, k)
    \/ \E i \in slots : \E k \in 1..Len(mount) : EnqueueCommit(i, k)

Spec == Init /\ [][Next]_vars

\* the transport delivers an envelope it still has to deliver
Deliver == \E i \in slots : \E envelope \in pending : Execute(i, envelope)

\* a step of a running mount.execute
Engine ==
    \/ \E i \in slots : Prefetch(i)
    \/ \E i \in slots : Shift(i)
    \/ \E i \in slots : Settle(i)
    \/ \E i \in slots : \E k \in 1..Len(mount) : ExecuteCall(i, k)
    \/ \E i \in slots : \E k \in 1..Len(mount) : GetResult(i, k)
    \/ \E i \in slots : \E k \in 1..Len(mount) : CheckInProgress(i, k)
    \/ \E i \in slots : \E k \in 1..Len(mount) : BeginTask(i, k)
    \/ \E i \in slots : \E k \in 1..Len(mount) : EnqueueBegin(i, k)
    \/ \E i \in slots : \E k \in 1..Len(mount) : CallbackSettles(i, k)
    \/ \E i \in slots : \E k \in 1..Len(mount) : Commit(i, k)
    \/ \E i \in slots : \E k \in 1..Len(mount) : EnqueueCommit(i, k)

\* the event loop runs every continuation that is ready, and the transport
\* delivers what it has to deliver (at-least-once delivery)
Fairness == WF_vars(Engine) /\ WF_vars(Deliver)

\* isolated mode, a reliable dispatcher, callbacks that never throw
LiveInit ==
    /\ mount \in {WithoutThrows(functions) : functions \in Mounts}
    /\ mode = "ISOLATED"
    /\ faults = 0
    /\ Constructed

SpecLive == LiveInit /\ [][Next]_vars /\ Fairness

\* isolated mode, a dispatcher that fails some dispatch calls, callbacks
\* that never throw, functions and steps none of whose task ids starts with
\* the task id of another
FaultyInit ==
    /\ mount \in {WithoutThrows(functions) :
                     functions \in Mounts \ {MountLoop, MountSimultaneous}}
    /\ mode = "ISOLATED"
    /\ faults = MaxFaults
    /\ Constructed

SpecFaulty == FaultyInit /\ [][Next]_vars /\ Fairness

\* run-until-error mode, callbacks that may throw; the event loop runs
\* every continuation of mount.execute that is ready
UntilErrorInit ==
    /\ mount \in Mounts
    /\ mode = "UNTIL_ERROR"
    /\ faults = 0
    /\ Constructed

SpecUntilError == UntilErrorInit /\ [][Next]_vars /\ Fairness

-----------------------------------------------------------------------------
(* Two runs of the same handlers from the same empty store, one in each    *)
(* execution mode, with a transport that delivers every envelope exactly   *)
(* once, in publish order                                                  *)

\* two functions for the same event, each with one step
MountTwo ==
    << createFunction(<<"a">>, {"foo"},
          << Step(<<"s">>, 0, "none", {"r1"}, FALSE) >>),
       createFunction(<<"b">>, {"foo"},
          << Step(<<"s">>, 0, "none", {Undefined}, FALSE) >>) >>

\* the same functions with callbacks that return the same value every time
\* they are invoked: the first of their values, or another one
Deterministic(functions, other) ==
    [k \in 1..Len(functions) |->
        [functions[k] EXCEPT
            !.steps = [n \in 1..Len(functions[k].steps) |->
                LET returns == functions[k].steps[n].returns
                    one == CHOOSE v \in returns : TRUE
                IN  [functions[k].steps[n] EXCEPT
                        !.returns = IF other /\ returns /= {one}
                                    THEN {CHOOSE v \in returns : v /= one}
                                    ELSE {one}]]]]

BothMounts ==
    {Deterministic(WithoutThrows(functions), other) :
        functions \in Mounts \cup {MountTwo}, other \in BOOLEAN}

OtherMode(m) == IF m = "ISOLATED" THEN "UNTIL_ERROR" ELSE "ISOLATED"

BothInit ==
    /\ mount \in BothMounts
    /\ mode \in Modes
    /\ faults = 0
    /\ store = EmptyStore
    /\ net = {}
    /\ issued = 0
    /\ alsEnabled = FALSE
    /\ slots = AllSlots
    /\ inv = [i \in AllSlots |-> IdleInv]
    /\ calls = NoCalls
    /\ deliveries = 0
    /\ last = Event0
    /\ pending = {}
    /\ reported = <<>>
    /\ returned = [NotReturned EXCEPT !.phase = 1]

\* the transport delivers the envelope it was handed first
DeliverInOrder ==
    \E i \in slots : \E envelope \in pending :
        /\ \/ ParseContext(envelope) = NoContext
           \/ /\ returned.fifo /= <<>>
              /\ envelope = Stringify(Event, Head(returned.fifo))
        /\ Execute(i, envelope)

\* the first run has come to rest
AtRest ==
    /\ net /= {}
    /\ pending = {}
    /\ \A i \in slots : inv[i].pc = "idle"

\* the first run is over: a new worker with an empty store mounts the same
\* functions in the other execution mode
Remount ==
    /\ returned.phase = 1
    /\ AtRest
    /\ mode' = OtherMode(mode)
    /\ store' = EmptyStore
    /\ net' = {}
    /\ issued' = 0
    /\ alsEnabled' = FALSE
    /\ inv' = [i \in AllSlots |-> IdleInv]
    /\ calls' = NoCalls
    /\ last' = Ev("remount", 0, 0, 0, <<>>, NoTaskId, Undefined)
    /\ returned' = [NotReturned EXCEPT
           !.phase = 2,
           !.first = [all |-> returned.all, kept |-> returned.kept,
                      disposed |-> store = EmptyStore]]
    /\ UNCHANGED <<mount, slots, deliveries, pending, faults, reported>>

NextBoth ==
    \/ Publish
    \/ DeliverInOrder
    \/ Engine
    \/ Remount

SpecBoth == BothInit /\ [][NextBoth]_vars

-----------------------------------------------------------------------------
(* Two invocations of mount.execute at a time: the transport delivers an   *)
(* envelope while an earlier delivery is still being processed, and the    *)
(* event loop interleaves the two invocations at their awaits              *)

ConcurrentSlots == {1, 2}

\* one function whose handler awaits one step
MountStep ==
    << createFunction(<<"f">>, {"foo"},
          << Step(<<"s">>, 0, "none", {"r1"}, FALSE) >>) >>

\* one function whose handler awaits two steps, one after the other
MountSteps ==
    << createFunction(<<"f">>, {"foo"},
          << Step(<<"s">>, 0, "none", {"r1"}, FALSE),
             Step(<<"t">>, 0, "none", {"r2"}, FALSE) >>) >>

ConcurrentMounts == {MountStep, MountSteps}

ConcurrentInit ==
    /\ mount \in ConcurrentMounts
    /\ mode \in Modes
    /\ faults = 0
    /\ store = EmptyStore
    /\ net = {}
    /\ issued = 0
    /\ alsEnabled = FALSE
    /\ slots = ConcurrentSlots
    /\ inv = [i \in ConcurrentSlots |-> IdleInv]
    /\ calls = NoCalls
    /\ deliveries = 0
    /\ last = Event0
    /\ pending = {}
    /\ reported = <<>>
    /\ returned = NotReturned

\* the transport delivers an envelope to whichever invocation slot is free
DeliverConcurrently ==
    \E i \in slots : \E envelope \in net :
        /\ envelope \in pending \/ deliveries < MaxRedeliveries
        /\ \A key \in DOMAIN calls : calls[key] < MaxCalls
        /\ Execute(i, envelope)

NextConcurrent ==
    \/ Publish
    \/ DeliverConcurrently
    \/ Engine

SpecConcurrent == ConcurrentInit /\ [][NextConcurrent]_vars

-----------------------------------------------------------------------------
(* worker.publish(event, dispatcherOptions) with the options of the caller *)

\* the dispatcher options a caller gives: none, or an options object
DispatcherOptions == {Undefined, "{retries:1}", "{retries:2}"}

\* variant: the options of the caller are not handed on
publish_WithoutOptions(event, dispatcherOptions, context) ==
    [data |-> Stringify(event, context), dispatcherOptions |-> Undefined]

\* publish(event, dispatcherOptions, context): the arguments of the call
\* dispatcher.dispatch(JSON.stringify({ event, context }), dispatcherOptions)
publish(event, dispatcherOptions, context) ==
    [data |-> Stringify(event, context),
     dispatcherOptions |-> dispatcherOptions]

\* history: a call of worker.publish and the call of dispatcher.dispatch it
\* made
PublishEv(event, dispatcherOptions, dispatch) ==
    [type |-> "publish", slot |-> 0, run |-> 0, step |-> 0, tid |-> <<>>,
     taskId |-> NoTaskId, value |-> Undefined, event |-> event,
     dispatcherOptions |-> dispatcherOptions, dispatch |-> dispatch]

\* worker.publish(event, dispatcherOptions) of a top-level event
PublishWith(dispatcherOptions) ==
    LET dispatch == publish(Event, dispatcherOptions, NoContext)
    IN  /\ dispatch.data \notin net
        /\ net' = net \cup {dispatch.data}
        /\ pending' = pending \cup {dispatch.data}
        /\ last' = PublishEv(Event, dispatcherOptions, dispatch)
        /\ UNCHANGED <<mount, mode, store, issued, alsEnabled, inv, slots,
                       calls, deliveries, faults, reported, returned>>

NextPublish ==
    \/ \E dispatcherOptions \in DispatcherOptions :
           PublishWith(dispatcherOptions)
    \/ \E i \in slots : \E envelope \in net : Execute(i, envelope)
    \/ Engine

SpecPublish == Init /\ [][NextPublish]_vars

-----------------------------------------------------------------------------
(* Mounting functions and receiving events: worker.createFunction,         *)
(* worker.mount, mount.execute without context up to the end of the first  *)
(* dispatch in isolated mode, mount.process, and the POST handler of       *)
(* createDangerousFetchDispatcher(...).mount                               *)

EventTypes == {"foo", "bar", "qux"}

\* the types of the events eventsSchema accepts
eventsSchema == {"foo", "bar"}

\* variant: no event has issues
Validate_Any(unknownEvent) == TRUE

\* eventsSchema["~standard"].validate(unknownEvent) reports no issues
Validate(unknownEvent) == unknownEvent.type \in eventsSchema

\* the event filters given to createFunction: a type string, a list of type
\* strings, a predicate (given by the types it returns true for)
EventFilters ==
    { [kind |-> "string", types |-> <<"foo">>],
      [kind |-> "array", types |-> <<"bar", "foo">>],
      [kind |-> "predicate", types |-> <<"foo", "bar", "qux">>] }

\* variant: of a list of types only the first is compared
eventFilterCallback_First(eventFilter, event) ==
    event.type = eventFilter.types[1]

\* eventFilterCallback of createFunction
eventFilterCallback(eventFilter, event) ==
    IF eventFilter.kind = "string" THEN event.type = eventFilter.types[1]
    ELSE IF eventFilter.kind = "array"
    THEN \E n \in 1..Len(eventFilter.types) :
             eventFilter.types[n] = event.type
    ELSE \E n \in 1..Len(eventFilter.types) :
             eventFilter.types[n] = event.type

\* worker.createFunction(id, eventFilter, handler) for a handler without
\* steps
FilteredFunction(id, eventFilter) ==
    [id |-> id,
     types |-> {t \in EventTypes :
                   eventFilterCallback(eventFilter, [type |-> t])},
     steps |-> <<>>, throws |-> FALSE, eventFilter |-> eventFilter]

FunctionPool ==
    {FilteredFunction(id, eventFilter) :
        id \in {<<"a">>, <<"b">>, <<"c">>}, eventFilter \in EventFilters}

FunctionLists == UNION {[1..n -> FunctionPool] : n \in 0..MaxFunctions}

\* all.indexOf(functionId)
IndexOf(all, x) ==
    CHOOSE i \in 1..Len(all) :
        /\ all[i] = x
        /\ \A j \in 1..(i - 1) : all[j] /= x

\* variant: only neighbours are compared
assertFunctionIdsUnique_Adjacent(functions) ==
    \A i \in 1..(Len(functions) - 1) : functions[i].id /= functions[i + 1].id

\* assertFunctionIdsUnique(functions) returns without throwing
assertFunctionIdsUnique(functions) ==
    LET functionIds == [i \in 1..Len(functions) |-> functions[i].id]
        uniqueFunctionIds ==
            {i \in 1..Len(functionIds) : IndexOf(functionIds, functionIds[i]) = i}
    IN  Cardinality(uniqueFunctionIds) = Len(functionIds)

\* the bodies given to process and POST: envelopes of top-level events, and
\* a text that is not JSON
Bodies ==
    {Stringify([type |-> t], NoContext) : t \in EventTypes}
        \cup {[text |-> "{"]}

\* the status of new Response(stream, { headers })
HttpOk == 200

\* history: a call of mount, mount.execute, process or POST: the event, the
\* ids of the functions execute was called for, in order, the error the
\* call threw or rejected with, and the status of the HTTP response
MountEv(type, event, ran, error, status) ==
    [type |-> type, slot |-> 0, run |-> 0, step |-> 0, tid |-> <<>>,
     taskId |-> NoTaskId, value |-> Undefined, event |-> event, ran |-> ran,
     error |-> error, status |-> status]

MountInit ==
    /\ mount \in FunctionLists
    /\ mode = "ISOLATED"
    /\ faults = 0
    /\ Constructed

\* worker.mount({ functions })
MountFunctions ==
    /\ last.type = "init"
    /\ last' = IF assertFunctionIdsUnique(mount)
               THEN MountEv("mount", Event, <<>>, "none", 0)
               ELSE MountEv("mount", Event, <<>>, "Error", 0)
    /\ UNCHANGED <<mount, mode, store, net, issued, alsEnabled, inv, slots,
                   calls, deliveries, pending, faults, reported, returned>>

\* worker.mount returned a mount
Mounted == last.type /= "init" /\ ~(last.type = "mount" /\ last.error /= "none")

\* the first dispatch of an isolated mount.execute without context: every
\* function finds its task neither committed nor in progress, begins it and
\* publishes its continuation
RECURSIVE BeginAll(_, _, _)
BeginAll(st, e, functions) ==
    IF functions = <<>> THEN st
    ELSE BeginAll(beginExecutionTask(st, e, Head(functions).id), e,
                  Tail(functions))

\* mount.execute(event) without context, called by `type`
ExecuteEffect(type, event, status) ==
    LET functions == filterFunctionsByEventAndContext(mount, event)
        context == Context(generateExecutionId(issued), Timestamp, NoTaskId)
        published ==
            {Stringify(event, ContinuationContext(context, functions[k].id)) :
                k \in 1..Len(functions)}
    IN  IF functions = <<>>
        THEN /\ last' = MountEv(type, event, <<>>, "none", status)
             /\ UNCHANGED <<store, net, pending, issued>>
        ELSE /\ issued < Len(ExecIds)
             /\ store' = BeginAll(beginExecution(store, context.executionId),
                                  context.executionId, functions)
             /\ net' = net \cup published
             /\ pending' = pending \cup published
             /\ issued' = issued + 1
             /\ last' = MountEv(type, event,
                                [k \in 1..Len(functions) |-> functions[k].id],
                                "none", status)

MountExecute(event) ==
    /\ Mounted
    /\ ExecuteEffect("execute", event, 0)
    /\ UNCHANGED <<mount, mode, alsEnabled, inv, slots, calls, deliveries,
                   faults, reported, returned>>

\* mount.process(data), called by `type`
ProcessEffect(type, data, status) ==
    IF "event" \notin DOMAIN data
    THEN \* jsonString.pipe(WorkerPublishRequestBody).parse(data) throws
         /\ last' = MountEv(type, [type |-> Undefined], <<>>, "ZodError",
                            status)
         /\ UNCHANGED <<store, net, pending, issued>>
    ELSE IF ~Validate(data.event)
    THEN /\ last' = MountEv(type, data.event, <<>>, "InvalidEventError",
                            status)
         /\ UNCHANGED <<store, net, pending, issued>>
    ELSE ExecuteEffect(type, data.event, status)

Process(data) ==
    /\ Mounted
    /\ ProcessEffect("process", data, 0)
    /\ UNCHANGED <<mount, mode, alsEnabled, inv, slots, calls, deliveries,
                   faults, reported, returned>>

\* POST(request) of createDangerousFetchDispatcher(...).mount: the response
\* is returned with the stream, before process(data) settles; a rejection
\* of process errors the stream
Post(data) ==
    /\ Mounted
    /\ ProcessEffect("POST", data, HttpOk)
    /\ UNCHANGED <<mount, mode, alsEnabled, inv, slots, calls, deliveries,
                   faults, reported, returned>>

MountNext ==
    \/ MountFunctions
    \/ \E t \in EventTypes : MountExecute([type |-> t])
    \/ \E data \in Bodies : Process(data)
    \/ \E data \in Bodies : Post(data)

SpecMount == MountInit /\ [][MountNext]_vars

-----------------------------------------------------------------------------
(* A handler whose first step may return any kind of value *)

\* what a callback may return: a string, the falsy JSON values 0, "", false
\* and null, nothing, and the string that equals the sentinel
ResultValues ==
    {"r1", Undefined, EMPTY_EXECUTION_RESULT} \cup Falsy

\* const v = await execute("v", ...); await execute("w", ...)
MountValues ==
    << createFunction(<<"f">>, {"foo"},
          << Step(<<"v">>, 0, "none", ResultValues, FALSE),
             Step(<<"w">>, 0, "none", {"r1"}, FALSE) >>) >>

ValuesInit ==
    /\ mount = MountValues
    /\ mode \in Modes
    /\ faults = 0
    /\ Constructed

SpecValues == ValuesInit /\ [][Next]_vars

-----------------------------------------------------------------------------
(* The in-memory store on its own: any sequence of calls of its methods    *)
(* for two executions                                                      *)

StoreIds == {"e1", "e2"}

StorePaths == {<<"f">>, <<"f", ":", "s">>}

StoreValues == {"r1", "0", EMPTY_EXECUTION_RESULT}

\* history: a call of a method of the store
StoreEv(type, e, p, v) ==
    [type |-> type, slot |-> 0, run |-> 0, step |-> 0, tid |-> p,
     taskId |-> NoTaskId, value |-> v, executionId |-> e]

StoreInit ==
    /\ mount = MountSequential
    /\ mode = "ISOLATED"
    /\ faults = 0
    /\ Constructed

StoreUnchanged ==
    UNCHANGED <<mount, mode, net, issued, alsEnabled, inv, slots, calls,
                deliveries, pending, faults, reported, returned>>

StoreBeginExecution(e) ==
    /\ store' = beginExecution(store, e)
    /\ last' = StoreEv("beginExecution", e, <<>>, Undefined)
    /\ StoreUnchanged

\* store[executionId][taskId] = ... throws when store[executionId] is
\* undefined
StoreBeginExecutionTask(e, p) ==
    /\ e \in DOMAIN store
    /\ store' = beginExecutionTask(store, e, p)
    /\ last' = StoreEv("beginExecutionTask", e, p, Undefined)
    /\ StoreUnchanged

StoreCommitExecutionTaskResult(e, p, v) ==
    /\ e \in DOMAIN store
    /\ store' = commitExecutionTaskResult(store, e, p, v)
    /\ last' = StoreEv("commitExecutionTaskResult", e, p, v)
    /\ StoreUnchanged

\* throws "not found, cannot dispose" when store[executionId] is undefined
StoreDisposeExecution(e) ==
    /\ e \in DOMAIN store
    /\ store' = disposeExecution(store, e)
    /\ last' = StoreEv("disposeExecution", e, <<>>, Undefined)
    /\ StoreUnchanged

StoreNext ==
    \/ \E e \in StoreIds : StoreBeginExecution(e)
    \/ \E e \in StoreIds : \E p \in StorePaths :
           StoreBeginExecutionTask(e, p)
    \/ \E e \in StoreIds : \E p \in StorePaths : \E v \in StoreValues :
           StoreCommitExecutionTaskResult(e, p, v)
    \/ \E e \in StoreIds : StoreDisposeExecution(e)

SpecStore == StoreInit /\ [][StoreNext]_vars

-----------------------------------------------------------------------------
(* Vocabulary of the properties *)

\* the task path of execute call s of func: the function id and the keys
\* of the enclosing calls and of the call, joined by ":"
RECURSIVE StaticPath(_, _)
StaticPath(func, s) ==
    IF s = 0 THEN func.id
    ELSE StaticPath(func, func.steps[s].parent) \o <<":">> \o func.steps[s].key

RECURSIVE IsAncestorOrSelf(_, _, _)
IsAncestorOrSelf(func, a, s) ==
    \/ a = s
    \/ s /= 0 /\ IsAncestorOrSelf(func, a, func.steps[s].parent)

\* p is q or an ancestor of q, segment by segment
IsPathPrefix(p, q) ==
    LET ps == Split(p)
        qs == Split(q)
    IN  Len(ps) <= Len(qs) /\ SubSeq(qs, 1, Len(ps)) = ps

Committed(st, e, p) == getExecutionTaskResult(st, e, p) /= Undefined

ActiveRuns ==
    {ik \in slots \X (1..Len(mount)) :
        /\ inv[ik[1]].pc = "running"
        /\ ik[2] \in 1..Len(inv[ik[1]].runs)}

RunOf(ik) == inv[ik[1]].runs[ik[2]]

HeadOf(ik) == inv[ik[1]].head

-----------------------------------------------------------------------------
(* C1: once a result is committed for a task path of an execution, the     *)
(* callback of the step at that path is not invoked again, whatever        *)
(* envelope is delivered afterwards.                                       *)
C1_CommittedStepNotInvokedAgain ==
    [][\A e \in DOMAIN store : \A p \in DOMAIN store[e] :
           Committed(store, e, p)
               => Count(calls', <<e, p>>) = Count(calls, <<e, p>>)]_vars

(* C2: a committed value stays the value of its path until the execution   *)
(* is disposed: no step of the engine replaces it by another value or by   *)
(* an in-progress marker.                                                  *)
C2_CommittedValueImmutable ==
    [][\A e \in DOMAIN store : \A p \in DOMAIN store[e] :
           (Committed(store, e, p) /\ e \in DOMAIN store')
               => /\ p \in DOMAIN store'[e]
                  /\ store'[e][p] = store[e][p]]_vars

(* C3: the state of a path only moves forward along absent, in progress,   *)
(* committed, absent (by disposal): a committed path does not go back to   *)
(* in progress and is not committed a second time.                         *)
C3_TaskStateMovesForward ==
    [][\A e \in DOMAIN store : \A p \in DOMAIN store[e] :
           /\ (Committed(store, e, p) /\ e \in DOMAIN store')
                  => /\ Committed(store', e, p)
                     /\ ~isExecutionTaskInProgress(store', e, p)
                     /\ ~(last'.type = "commit" /\ last'.tid = p)
           /\ (isExecutionTaskInProgress(store, e, p) /\ e \in DOMAIN store')
                  => \/ isExecutionTaskInProgress(store', e, p)
                     \/ Committed(store', e, p)]_vars

(* C4: a callback is invoked only when the inbound task id is the full     *)
(* path of its step or the path of a descendant of it, compared segment by *)
(* segment.                                                                *)
C4_EnteredOnlyForSelfOrDescendant ==
    last.type = "enter" => IsPathPrefix(last.tid, last.taskId)


(* C5: in isolated mode a run that reaches a step with no committed value, *)
(* not in progress and not targeted marks the step in progress, enqueues   *)
(* exactly one continuation (executionId and timestamp of the inbound      *)
(* context, taskId the full path of the step), invokes neither the         *)
(* callback of the step nor that of a later step, and ends.                *)
C5_BeginEnqueuesOneContinuation ==
    \A ik \in ActiveRuns :
        LET r == RunOf(ik)
            full == StaticPath(Func(ik[2]), r.stop)
            cont == Context(HeadOf(ik).executionId, HeadOf(ik).timestamp,
                            full)
        IN  (mode = "ISOLATED" /\ r.why = "triggered")
                => /\ r.pc = "interrupted"
                   /\ r.writes = <<[op |-> "begin", tid |-> full,
                                    value |-> Undefined]>>
                   /\ isExecutionTaskInProgress(
                          store, HeadOf(ik).executionId, full)
                   /\ r.pub = <<cont>>
                   /\ Stringify(Event, cont) \in net
                   /\ \A s \in r.entered : s < r.stop

C5_Witness ==
    \E ik \in ActiveRuns :
        /\ mode = "ISOLATED"
        /\ RunOf(ik).why = "triggered"
        /\ RunOf(ik).stop > 0

(* C6: when the callback of the targeted step resolves, the run commits    *)
(* the result under the full path of the step, clearing the in-progress    *)
(* marker, enqueues exactly one continuation whose taskId is that path     *)
(* without its last segment (none for the function id), and the handler is *)
(* suspended: the run does nothing more in that dispatch.                  *)
C6_Committed ==
    \A ik \in ActiveRuns :
        LET r == RunOf(ik)
            func == Func(ik[2])
            e == HeadOf(ik).executionId
            full == StaticPath(func, r.stop)
            parent == IF r.stop = 0 THEN NoTaskId
                      ELSE StaticPath(func, func.steps[r.stop].parent)
            cont == Context(e, HeadOf(ik).timestamp, parent)
        IN  r.why = "committed"
                => /\ r.pc = "interrupted"
                   /\ r.writes = <<[op |-> "commit", tid |-> full,
                                    value |-> ToStored(r.res)]>>
                   /\ e \in DOMAIN store
                   /\ full \in DOMAIN store[e]
                   /\ store[e][full] = ValueEntry(ToStored(r.res))
                   /\ r.pub = <<cont>>
                   /\ IF mode = "ISOLATED"
                      THEN Stringify(Event, cont) \in net
                      ELSE /\ inv[ik[1]].queue /= <<>>
                           /\ cont = inv[ik[1]].queue[Len(inv[ik[1]].queue)]

C6_Suspended ==
    \A ik \in ActiveRuns :
        (RunOf(ik).why = "committed" /\ inv'[ik[1]].pc = "running")
            => /\ inv'[ik[1]].runs[ik[2]] = RunOf(ik)
               /\ last'.type = "enter" => last'.run /= ik[2]

C6_CommitEnqueuesParent == []C6_Committed /\ [][C6_Suspended]_vars

C6_Witness ==
    \E ik \in ActiveRuns :
        /\ RunOf(ik).why = "committed"
        /\ RunOf(ik).stop > 0
        /\ Func(ik[2]).steps[RunOf(ik).stop].parent > 0


(* C7: a run that reaches a step marked in progress, with no committed     *)
(* value and not targeted, ends there: it invokes no callback, publishes   *)
(* and enqueues nothing and leaves the store as it is.                     *)
C7_Reached(ik) ==
    /\ RunOf(ik).pc = "isInProgress"
    /\ isExecutionTaskInProgress(store, HeadOf(ik).executionId, RunOf(ik).tid)

C7_Skips ==
    \A ik \in ActiveRuns :
        (C7_Reached(ik) /\ inv'[ik[1]].runs[ik[2]] /= RunOf(ik))
            => /\ inv'[ik[1]].runs[ik[2]].pc = "interrupted"
               /\ inv'[ik[1]].runs[ik[2]].pub = <<>>
               /\ inv'[ik[1]].runs[ik[2]].writes = <<>>
               /\ inv'[ik[1]].queue = inv[ik[1]].queue
               /\ store' = store
               /\ net' = net
               /\ calls' = calls

C7_Ended ==
    \A ik \in ActiveRuns :
        RunOf(ik).why = "in progress"
            => /\ RunOf(ik).pc = "interrupted"
               /\ RunOf(ik).pub = <<>>
               /\ RunOf(ik).writes = <<>>
               /\ \A s \in RunOf(ik).entered : s < RunOf(ik).stop

C7_InProgressSkips == []C7_Ended /\ [][C7_Skips]_vars

C7_Witness ==
    \E ik \in ActiveRuns :
        /\ RunOf(ik).why = "in progress"
        /\ RunOf(ik).stop > 0

(* C8: an Interrupt raised by a nested execute call, or coming up from a   *)
(* descendant call, is never seen by a catch block of the handler or of a  *)
(* callback; the code awaiting the call is not resumed, and the            *)
(* function's execute call rejects with the Interrupt.                     *)
C8_InterruptNotCatchable ==
    \A ik \in ActiveRuns :
        /\ Interrupt \notin RunOf(ik).caught
        /\ RunOf(ik).why /= "" => RunOf(ik).pc = "interrupted"

C8_Witness ==
    \E ik \in ActiveRuns :
        LET func == Func(ik[2])
            r == RunOf(ik)
        IN  /\ r.why = "triggered"
            /\ r.stop > 0
            /\ func.steps[r.stop].parent > 0
            /\ func.steps[func.steps[r.stop].parent].try /= "none"


(* C9: when the callback of the entered step throws, the error reaches the *)
(* code that awaits the execute call: a try/catch around the call catches  *)
(* it and that code goes on after the catch; without any try/catch the     *)
(* function's execute call rejects.  Nothing is committed and the store,   *)
(* the in-progress marker of the step included, stays as it is.            *)
C9_Delivered ==
    last.type = "throw"
        => LET r == inv[last.slot].runs[last.run]
               func == Func(last.run)
               guarded == \E a \in 1..Len(func.steps) :
                              /\ IsAncestorOrSelf(func, a, last.step)
                              /\ func.steps[a].try /= "none"
           IN  /\ guarded => (HandlerError \in r.caught /\ ~RunEnded(r))
               /\ ~guarded => r.pc = "rejected"
               /\ r.writes = <<>>

C9_NoCommit == last'.type = "throw" => store' = store

C9_CallbackErrorCatchable == []C9_Delivered /\ [][C9_NoCommit]_vars

C9_Witness ==
    /\ last.type = "throw"
    /\ HandlerError \in inv[last.slot].runs[last.run].caught
    /\ isExecutionTaskInProgress(
           store, inv[last.slot].head.executionId, last.tid)
    /\ Func(last.run).steps[last.step].try /= "none"

(* C10: a dispatch disposes the execution exactly when every matching      *)
(* function finished without Interrupt and without error; so at disposal   *)
(* the function-level result of every matching function is committed, and  *)
(* a dispatch without task id that finds them all committed disposes.      *)
C10_SettleStep(i) == inv[i].pc = "running" /\ inv'[i].pc /= "running"

C10_AllDone(i) == \A k \in 1..Len(inv[i].runs) : inv[i].runs[k].pc = "done"

C10_AllCommitted(i) ==
    \A k \in 1..Len(targetFunctions) :
        Committed(store, inv[i].head.executionId, targetFunctions[k].id)

C10_DisposeIff ==
    /\ \A e \in DOMAIN store :
           e \notin DOMAIN store'
               => \E i \in slots : /\ C10_SettleStep(i)
                                   /\ inv[i].head.executionId = e
                                   /\ C10_AllDone(i)
                                   /\ C10_AllCommitted(i)
    /\ \A i \in slots :
           (C10_SettleStep(i) /\ C10_AllDone(i))
               => /\ inv[i].head.executionId \notin DOMAIN store'
                  /\ last'.type = "dispose"

C10_FindsAllCommitted ==
    \A i \in slots :
        (inv[i].pc = "running" /\ inv[i].head.taskId = NoTaskId
             /\ C10_AllCommitted(i))
            => \A k \in 1..Len(inv[i].runs) :
                   inv[i].runs[k].pc \in {"call", "getResult", "done"}

-----------------------------------------------------------------------------
(* C11: in isolated mode, when the transport delivers every published      *)
(* envelope and no callback throws, every execution that was started is    *)
(* eventually disposed, and at its disposal every step of every matching   *)
(* handler has a committed result.                                         *)
C11_Disposed == (store /= EmptyStore) ~> (store = EmptyStore)

C11_CommittedAtDisposal ==
    \A e \in DOMAIN store :
        e \notin DOMAIN store'
            => \A k \in 1..Len(targetFunctions) :
                   \A s \in 0..Len(targetFunctions[k].steps) :
                       Committed(store, e, StaticPath(targetFunctions[k], s))

C11_EveryExecutionDisposed ==
    C11_Disposed /\ [][C11_CommittedAtDisposal]_vars

-----------------------------------------------------------------------------
(* Vocabulary of the properties about a whole mount.execute *)

\* the steps of func whose callback makes no execute call, in source order
RECURSIVE LeafPaths(_, _)
LeafPaths(func, s) ==
    IF s > Len(func.steps) THEN <<>>
    ELSE (IF NextCall(func, s, 0) = 0 THEN <<StaticPath(func, s)>> ELSE <<>>)
         \o LeafPaths(func, s + 1)

\* the execute calls in the body of the handler of func, in source order
RECURSIVE TopSteps(_, _)
TopSteps(func, s) ==
    IF s > Len(func.steps) THEN <<>>
    ELSE (IF func.steps[s].parent = 0 THEN <<s>> ELSE <<>>)
         \o TopSteps(func, s + 1)

RECURSIVE Restrict(_, _)
Restrict(seq, set) ==
    IF seq = <<>> THEN <<>>
    ELSE (IF Head(seq) \in set THEN <<Head(seq)>> ELSE <<>>)
         \o Restrict(Tail(seq), set)

Range(seq) == {seq[n] : n \in 1..Len(seq)}

\* a tail call got the value of every execute call of the handler's body
TailOf(func, tail) == [n \in 1..Len(tail) |-> tail[n].step] = TopSteps(func, 1)

(* C12: in run-until-error mode a mount.execute without context in which   *)
(* no callback throws never calls the dispatcher, invokes the callback of  *)
(* every step exactly once and in handler order (a callback that itself    *)
(* calls execute is replayed, so the steps counted are those that do       *)
(* not), invokes the tail of every handler exactly once, with the          *)
(* committed results, and returns with the execution disposed.             *)
C12_WholeFunction ==
    (mode = "UNTIL_ERROR" /\ returned.top /\ ~returned.threw)
        => /\ returned.outcome = "resolved"
           /\ returned.pubs = <<>>
           /\ net = {Stringify(Event, NoContext)}
           /\ \A k \in 1..Len(targetFunctions) :
                  /\ Restrict(returned.order,
                              Range(LeafPaths(targetFunctions[k], 1)))
                         = LeafPaths(targetFunctions[k], 1)
                  /\ \E n \in 1..Len(returned.tails) :
                         TailOf(targetFunctions[k], returned.tails[n])
           /\ Len(returned.tails) = Len(targetFunctions)
           /\ returned.st1 = EmptyStore

C12_TailGetsCommitted ==
    \A ik \in ActiveRuns :
        LET r == inv'[ik[1]].runs[ik[2]]
        IN  (inv'[ik[1]].pc = "running" /\ r.tails /= RunOf(ik).tails)
                => \A n \in 1..Len(r.got) :
                       r.got[n].value =
                           FromStored(getExecutionTaskResult(
                               store, HeadOf(ik).executionId,
                               StaticPath(Func(ik[2]), r.got[n].step)))

C12_RunUntilErrorHappyPath ==
    []C12_WholeFunction /\ [][C12_TailGetsCommitted]_vars

(* C13: a mount.execute given the context of an execution that is not in   *)
(* the store (it was disposed) returns successfully and has invoked no     *)
(* handler and no callback, written nothing to the store and published     *)
(* nothing.                                                                *)
C13_DisposedExecutionSkipped ==
    (/\ returned.outcome /= "none"
     /\ ~returned.top
     /\ ~isExecutionInProgress(returned.st0, returned.ctx.executionId))
        => /\ returned.outcome = "resolved"
           /\ returned.order = <<>>
           /\ returned.tails = <<>>
           /\ returned.calls1 = returned.calls0
           /\ returned.st1 = returned.st0
           /\ returned.pubs = <<>>

C13_Witness ==
    /\ returned.outcome = "resolved"
    /\ ~returned.top
    /\ returned.ctx.taskId /= NoTaskId
    /\ ~isExecutionInProgress(returned.st0, returned.ctx.executionId)
    /\ last.type = "resolved"

(* C14: when dispatcher.dispatch fails while mount.execute publishes a     *)
(* continuation (after beginExecutionTask or after                         *)
(* commitExecutionTaskResult) and the transport delivers the inbound       *)
(* envelope again, the continuation is published again and the execution   *)
(* goes on to its disposal.                                                *)
C14_Failed ==
    /\ last.type = "dispatch error"
    /\ ~inv[last.slot].top
    /\ deliveries < MaxDeliveries

C14_RedeliveryRepublishes == C14_Failed ~> (store = EmptyStore)

(* C15: when the execute call of some matching function rejects with an    *)
(* error that is not an Interrupt (the handler or a callback threw and the *)
(* handler did not catch it), mount.execute rejects, whatever the other    *)
(* matching functions did.                                                 *)
C15_ErrorNeverDropped ==
    [][\A i \in slots :
          (/\ inv[i].pc = "running"
           /\ inv'[i].pc /= "running"
           /\ \E k \in 1..Len(inv[i].runs) : inv[i].runs[k].pc = "rejected")
              => /\ last'.type = "rejected"
                 /\ returned'.outcome = "rejected"]_vars

(* C16: with onError configured, every error of a handler or of a         *)
(* callback that makes mount.execute reject has been passed to onError,    *)
(* and onError is never invoked with an Interrupt.                         *)
C16_OnErrorInvoked ==
    /\ last.type = "rejected" => Len(reported) > 0
    /\ \A n \in 1..Len(reported) : reported[n] /= Interrupt

-----------------------------------------------------------------------------
(* Scenario S1.  mount.execute(event, {executionId: e1, timestamp: 1}) is  *)
(* a mount.execute whose context at worker.ts:304 is C17_Context; a call   *)
(* without context reaches that line with this context and with e1 begun.  *)
C17_Context == Context(generateExecutionId(0), Timestamp, NoTaskId)

\* every matching function is marked in progress and nothing else is stored,
\* one envelope per function is published, with the function id as task id,
\* and no callback is invoked
C17_FirstStepPublished ==
    /\ returned.outcome = "resolved"
    /\ returned.st1 =
           (C17_Context.executionId :>
               [p \in {targetFunctions[k].id : k \in 1..Len(targetFunctions)}
                   |-> TransactionEntry])
    /\ Len(returned.pubs) = Len(targetFunctions)
    /\ \A k \in 1..Len(targetFunctions) :
           \E n \in 1..Len(returned.pubs) :
               returned.pubs[n] = Context(C17_Context.executionId, Timestamp,
                                          targetFunctions[k].id)
    /\ returned.order = <<>>
    /\ returned.calls1 = returned.calls0

(* C17 as stated: starting from an empty store, the isolated               *)
(* mount.execute(event, {executionId: e1, timestamp: 1}) leaves e1/func1   *)
(* in progress, publishes exactly one envelope, with context {e1, 1,       *)
(* taskId func1}, and invokes no callback.                                 *)
C17_FromEmptyStore ==
    (/\ mode = "ISOLATED"
     /\ returned.outcome /= "none"
     /\ returned.ctx = C17_Context
     /\ returned.st0 = EmptyStore)
        => C17_FirstStepPublished

(* C17 amended: starting from a store in which e1 has been begun and holds *)
(* no task, the isolated mount.execute(event, {executionId: e1,            *)
(* timestamp: 1}) leaves e1/func1 in progress, publishes exactly one       *)
(* envelope, with context {e1, 1, taskId func1}, and invokes no callback.  *)
C17_FromBegunExecution ==
    (/\ mode = "ISOLATED"
     /\ returned.outcome /= "none"
     /\ returned.ctx = C17_Context
     /\ returned.st0 = beginExecution(EmptyStore, C17_Context.executionId))
        => C17_FirstStepPublished

C17_Witness ==
    /\ mode = "ISOLATED"
    /\ last.type = "resolved"
    /\ returned.ctx = C17_Context
    /\ returned.st0 = beginExecution(EmptyStore, C17_Context.executionId)
    /\ Len(targetFunctions) = 1
    /\ returned.pubs = <<Context("e1", 1, targetFunctions[1].id)>>

-----------------------------------------------------------------------------
(* Scenario S4 *)

\* in store st every step of every matching handler is committed
C18_StepsCommitted(st) ==
    \A k \in 1..Len(targetFunctions) :
        \A n \in 1..Len(targetFunctions[k].steps) :
            Committed(st, C17_Context.executionId,
                      StaticPath(targetFunctions[k], n))

\* in store st every matching function has its own result committed
C18_FunctionsCommitted(st) ==
    \A k \in 1..Len(targetFunctions) :
        Committed(st, C17_Context.executionId, targetFunctions[k].id)

\* the tail of func was called with the values committed in st
C18_TailWith(func, tail, st) ==
    /\ TailOf(func, tail)
    /\ \A n \in 1..Len(tail) :
           tail[n].value =
               FromStored(getExecutionTaskResult(
                   st, C17_Context.executionId,
                   StaticPath(func, tail[n].step)))

(* C18 as stated: with step1 and step2 of func1 committed, the isolated    *)
(* mount.execute(event, {executionId: e1, timestamp: 1}) without task id   *)
(* invokes the tail of the handler exactly once, with the committed        *)
(* values, empties the store for e1 and publishes nothing.                 *)
C18_FinalReplayRunsTail ==
    (/\ mode = "ISOLATED"
     /\ returned.outcome /= "none"
     /\ returned.ctx = C17_Context
     /\ Len(targetFunctions) = 1
     /\ Len(targetFunctions[1].steps) > 0
     /\ C18_StepsCommitted(returned.st0))
        => /\ Len(returned.tails) = 1
           /\ C18_TailWith(targetFunctions[1], returned.tails[1],
                           returned.st0)
           /\ returned.st1 = EmptyStore
           /\ returned.pubs = <<>>

(* C18 amended: with step1, step2 and func1 itself committed, the isolated *)
(* mount.execute without task id invokes no handler, no tail and no        *)
(* callback, empties the store for e1 and publishes nothing; the tail is   *)
(* invoked, exactly once and with the committed values, by the             *)
(* mount.execute with task id func1 that finds step1 and step2 committed   *)
(* and func1 in progress: that one commits func1 and publishes the         *)
(* envelope without task id.                                               *)
C18_FinalReplayDisposes ==
    (/\ mode = "ISOLATED"
     /\ returned.outcome /= "none"
     /\ returned.ctx = C17_Context
     /\ C18_StepsCommitted(returned.st0)
     /\ C18_FunctionsCommitted(returned.st0))
        => /\ returned.outcome = "resolved"
           /\ returned.order = <<>>
           /\ returned.tails = <<>>
           /\ returned.calls1 = returned.calls0
           /\ returned.st1 = EmptyStore
           /\ returned.pubs = <<>>

C18_FunctionReplayRunsTail ==
    (/\ mode = "ISOLATED"
     /\ returned.outcome /= "none"
     /\ Len(targetFunctions) = 1
     /\ returned.ctx = [C17_Context EXCEPT !.taskId = targetFunctions[1].id]
     /\ C18_StepsCommitted(returned.st0)
     /\ isExecutionTaskInProgress(returned.st0, C17_Context.executionId,
                                  targetFunctions[1].id))
        => /\ returned.outcome = "resolved"
           /\ returned.order = <<targetFunctions[1].id>>
           /\ Len(returned.tails) = 1
           /\ C18_TailWith(targetFunctions[1], returned.tails[1],
                           returned.st0)
           /\ returned.st1 =
                  commitExecutionTaskResult(
                      returned.st0, C17_Context.executionId,
                      targetFunctions[1].id, EMPTY_EXECUTION_RESULT)
           /\ returned.pubs = <<C17_Context>>

C18_TailThenDisposal == C18_FinalReplayDisposes /\ C18_FunctionReplayRunsTail

C18_Witness ==
    /\ mode = "ISOLATED"
    /\ last.type = "resolved"
    /\ returned.ctx = C17_Context
    /\ Len(targetFunctions) = 1
    /\ Len(targetFunctions[1].steps) = 2
    /\ C18_StepsCommitted(returned.st0)
    /\ C18_FunctionsCommitted(returned.st0)
    /\ returned.st1 = EmptyStore

-----------------------------------------------------------------------------
(* Replay *)

\* the keys of the call counter that are step paths, not function ids
C19_StepCalls(c) ==
    {key \in DOMAIN c : \A k \in 1..Len(mount) : key[2] /= mount[k].id}

\* a callback of a step is invoked only while its path holds no committed
\* value, and a step that is passed over returns the committed value
C19_CommittedStepsHit ==
    /\ (last.type = "enter" /\ last.step > 0)
           => ~Committed(store, inv[last.slot].head.executionId, last.tid)
    /\ last.type = "hit"
           => /\ Committed(store, inv[last.slot].head.executionId, last.tid)
              /\ last.value =
                     FromStored(getExecutionTaskResult(
                         store, inv[last.slot].head.executionId, last.tid))

\* an invocation that enters a handler whose steps were all committed when
\* it began, and in which no handler throws, runs every entered handler to
\* its end and invokes no callback of a step
C19_NothingLeftRunsToEnd ==
    (/\ returned.outcome /= "none"
     /\ returned.order /= <<>>
     /\ ~returned.top
     /\ ~returned.threw
     /\ C18_StepsCommitted(returned.st0))
        => /\ returned.outcome = "resolved"
           /\ Len(returned.tails) = Len(returned.order)
           /\ \A key \in C19_StepCalls(returned.calls1) :
                  Count(returned.calls1, key) = Count(returned.calls0, key)

(* C19: in an execution with committed task paths, an invocation that      *)
(* re-runs the handler gets the committed value of every committed step,   *)
(* in handler order, without invoking the callback of that step; and when  *)
(* every step is committed, the handler runs to its end without an         *)
(* Interrupt and without any callback being invoked.                       *)
C19_ReplayDeterminism == C19_CommittedStepsHit /\ C19_NothingLeftRunsToEnd

-----------------------------------------------------------------------------
(* Order of the steps *)

\* the execute calls the handler of func awaits before it makes call s:
\* the calls before s in the source that do not enclose s
C20_Earlier(func, s) ==
    {n \in 1..Len(func.steps) : n < s /\ ~IsAncestorOrSelf(func, n, s)}

\* the steps whose committed value run r has been given
C20_Given(r) == {r.got[j].step : j \in 1..Len(r.got)}

-----------------------------------------------------------------------------
(* The two execution modes *)

\* both runs have come to rest
C21_BothRan == returned.phase = 2 /\ AtRest

\* the step callbacks of the handler of func among the invocations `all`
C21_Of(func, all) == SelectSeq(all, LAMBDA t : Split(t)[1] = func.id)

(* C21: for the same handlers and the same initial store, the run in       *)
(* run-until-error mode and the run in isolated mode with exactly-once,    *)
(* in-order delivery invoke the same step callbacks of every handler in    *)
(* the same order, hold the same committed values before disposal, and     *)
(* both end with the execution disposed.                                   *)
C21_ModesAgree ==
    C21_BothRan
        => /\ \A k \in 1..Len(mount) :
                  C21_Of(mount[k], returned.all)
                      = C21_Of(mount[k], returned.first.all)
           /\ returned.kept = returned.first.kept
           /\ returned.first.disposed
           /\ returned.first.kept /= EmptyStore
           /\ store = EmptyStore
           /\ returned.kept /= EmptyStore

-----------------------------------------------------------------------------
(* The store *)

(* C22: after disposeExecution(e) on the in-memory store,                  *)
(* isExecutionInProgress(e) is false and getExecutionTaskResult(e, p) is   *)
(* absent for every path p, and every other execution is as it was.        *)
C22_DisposalRemovesOneExecution ==
    [][\A e \in StoreIds :
          (last'.type = "disposeExecution" /\ last'.executionId = e)
              => /\ ~isExecutionInProgress(store', e)
                 /\ \A p \in StorePaths :
                        getExecutionTaskResult(store', e, p) = Undefined
                 /\ \A x \in StoreIds \ {e} :
                        /\ isExecutionInProgress(store', x)
                               = isExecutionInProgress(store, x)
                        /\ x \in DOMAIN store => store'[x] = store[x]]_vars

C22_Witness ==
    /\ last.type = "disposeExecution"
    /\ last.executionId = "e1"
    /\ ~isExecutionInProgress(store, "e1")
    /\ isExecutionInProgress(store, "e2")
    /\ getExecutionTaskResult(store, "e2", <<"f", ":", "s">>) = "r1"
    /\ isExecutionTaskInProgress(store, "e2", <<"f">>)

-----------------------------------------------------------------------------
(* Committed values *)

\* the execution of the latest engine event
C23_ExecutionId == inv[last.slot].head.executionId

\* the committed value of the path of the latest engine event
C23_Stored == getExecutionTaskResult(store, C23_ExecutionId, last.tid)

\* a callback that returned nothing is committed as the sentinel
C23_NothingCommittedAsSentinel ==
    (last.type = "commit" /\ inv[last.slot].runs[last.run].res = Undefined)
        => /\ last.value = EMPTY_EXECUTION_RESULT
           /\ C23_Stored = EMPTY_EXECUTION_RESULT

\* an execute call for a path that holds the sentinel does not invoke the
\* callback and does not take the path for one without a committed result:
\* it returns undefined
C23_SentinelReadAsNothing ==
    (/\ last.type \in {"enter", "hit", "miss", "free", "begin", "in progress"}
     /\ last.step > 0
     /\ C23_Stored = EMPTY_EXECUTION_RESULT)
        => /\ last.type = "hit"
           /\ last.value = Undefined

(* C23: a step callback that returns nothing is committed as the sentinel  *)
(* <empty_execution_result>, and every later execute call for that path    *)
(* returns undefined to the handler without invoking the callback.         *)
C23_SentinelRoundTrip ==
    C23_NothingCommittedAsSentinel /\ C23_SentinelReadAsNothing

\* what later reads make of the committed value is the value the callback
\* returned
C24_CommittedAsReturned ==
    (/\ last.type = "commit"
     /\ last.step > 0
     /\ inv[last.slot].runs[last.run].res /= Undefined)
        => FromStored(C23_Stored) = inv[last.slot].runs[last.run].res

\* the value handed to the handler is the committed one, whether it comes
\* from the prefetched map, from the cache of the invocation or from
\* getExecutionTaskResult
C24_ReadAsCommitted ==
    (last.type = "hit" /\ C23_Stored /= EMPTY_EXECUTION_RESULT)
        => last.value = C23_Stored

(* C24: for every JSON-serializable value v a step callback returns, every *)
(* later execute call for that path hands a value equal to v to the        *)
(* handler, from whichever of the prefetched map, the cache and the store  *)
(* it is served; falsy values and the string equal to the sentinel         *)
(* included.                                                               *)
C24_ValueRoundTrip == C24_CommittedAsReturned /\ C24_ReadAsCommitted

-----------------------------------------------------------------------------
(* Mounting and filtering *)

\* no two of the functions given to mount have the same id
C25_IdsDistinct ==
    \A i, j \in 1..Len(mount) : mount[i].id = mount[j].id => i = j

(* C25: mount throws, and returns no mount, whenever two of the given      *)
(* functions have the same id; it returns a mount when all ids are         *)
(* distinct.                                                               *)
C25_MountFailsOnDuplicateIds ==
    /\ last.type = "mount" => (last.error = "none" <=> C25_IdsDistinct)
    /\ last.type \in {"execute", "process", "POST"} => C25_IdsDistinct

C25_Witness ==
    /\ last.type = "mount"
    /\ last.error = "Error"
    /\ Len(mount) = 3
    /\ mount[1].id = mount[3].id
    /\ mount[1].id /= mount[2].id


\* the filter accepts the event: the event has the type string, or one of
\* the listed types, or the predicate is true of it
C26_Accepts(eventFilter, event) ==
    \E n \in 1..Len(eventFilter.types) : eventFilter.types[n] = event.type

\* the place of the function with this id among the mounted functions
C26_Place(id) == CHOOSE k \in 1..Len(mount) : mount[k].id = id

\* a call of mount.execute that was made and did not throw
C26_Executed(ev) ==
    ev.type \in {"execute", "process", "POST"} /\ ev.error = "none"

\* execute is called for the functions whose filter accepts the event, for
\* each of them once, in registration order
C26_RunsTheAcceptingFunctions ==
    C26_Executed(last)
        => /\ \A k \in 1..Len(mount) :
                  (\E n \in 1..Len(last.ran) : last.ran[n] = mount[k].id)
                      <=> C26_Accepts(mount[k].eventFilter, last.event)
           /\ \A a, b \in 1..Len(last.ran) :
                  a < b => C26_Place(last.ran[a]) < C26_Place(last.ran[b])

\* a call for an event no function accepts changes nothing
C26_NothingForNoFunction ==
    (C26_Executed(last') /\ last'.ran = <<>>)
        => /\ store' = store
           /\ net' = net
           /\ pending' = pending
           /\ issued' = issued

(* C26: mount.execute runs exactly the mounted functions whose filter (a   *)
(* type string, a list of type strings or a predicate) accepts the event,  *)
(* in registration order; when no function accepts the event it returns    *)
(* without creating an execution, touching the store or publishing.        *)
C26_FilterForEvent ==
    []C26_RunsTheAcceptingFunctions /\ [][C26_NothingForNoFunction]_vars

C26_Witness ==
    /\ last.type = "execute"
    /\ last.event.type = "bar"
    /\ Len(mount) = 3
    /\ mount[1].eventFilter.kind = "predicate"
    /\ mount[2].eventFilter.kind = "string"
    /\ mount[3].eventFilter.kind = "array"
    /\ last.ran = <<mount[1].id, mount[3].id>>
    /\ isExecutionTaskInProgress(store, "e1", mount[3].id)

-----------------------------------------------------------------------------
(* Input validation *)

\* process was given an event the schema does not accept
C28_InvalidEvent(ev) ==
    ev.type = "process" /\ ev.event.type \in EventTypes \ eventsSchema

C28_Rejected == C28_InvalidEvent(last) => last.error = "InvalidEventError"

C28_NothingDone ==
    C28_InvalidEvent(last')
        => /\ last'.ran = <<>>
           /\ store' = store
           /\ net' = net
           /\ pending' = pending
           /\ issued' = issued
           /\ calls' = calls

(* C28: process rejects with InvalidEventError when the event of the       *)
(* payload does not match the event schema; no handler is invoked, the     *)
(* store is left alone and nothing is published.                           *)
C28_InvalidEventRejected == []C28_Rejected /\ [][C28_NothingDone]_vars

C28_Witness ==
    /\ C28_InvalidEvent(last)
    /\ last.error = "InvalidEventError"
    /\ \E k \in 1..Len(mount) : last.event.type \in mount[k].types
    /\ store = EmptyStore
    /\ net = {}

(* C29: the POST handler returned by dispatcher.mount answers a body that  *)
(* fails input validation, a malformed envelope or an event the schema     *)
(* rejects, with an error status and not with a success status.            *)
C29_ValidationFailureIsErrorStatus ==
    (last.type = "POST" /\ last.error \in {"ZodError", "InvalidEventError"})
        => last.status >= 400

-----------------------------------------------------------------------------
(* Envelopes *)

\* worker.publish dispatched the event without a context, with the options
\* of the caller
C30_TopLevelPublish ==
    last.type = "publish"
        => /\ last.dispatch.data \in net
           /\ "event" \in DOMAIN last.dispatch.data
           /\ last.dispatch.data.event = last.event
           /\ "context" \notin DOMAIN last.dispatch.data
           /\ last.dispatch.dispatcherOptions = last.dispatcherOptions

\* the ids of the executions created so far
C30_Executions == {ExecIds[n] : n \in 1..issued}

\* every envelope with a context names an execution that was created, with
\* the timestamp the execution was created with
C30_ContinuationsCarryContext ==
    \A envelope \in net :
        "context" \in DOMAIN envelope
            => /\ "event" \in DOMAIN envelope
               /\ envelope.context.executionId \in C30_Executions
               /\ envelope.context.timestamp = Timestamp

\* an envelope published by a running invocation carries the executionId
\* and timestamp of the context of that invocation
C30_PublishedByInvocation ==
    \A envelope \in net' \ net :
        \/ last'.type = "publish"
        \/ \E i \in AllSlots :
               /\ inv[i].pc /= "idle"
               /\ "context" \in DOMAIN envelope
               /\ envelope.context.executionId = inv[i].ctx.executionId
               /\ envelope.context.timestamp = inv[i].ctx.timestamp

(* C30: every envelope of a top-level worker.publish(event) contains the   *)
(* event and no context, and the dispatcher receives the caller's options  *)
(* unchanged; every envelope the engine publishes as a continuation        *)
(* contains a context with the executionId and timestamp of the execution. *)
C30_Envelopes ==
    /\ [](C30_TopLevelPublish /\ C30_ContinuationsCarryContext)
    /\ [][C30_PublishedByInvocation]_vars

\* a top-level envelope and a continuation of its execution were published
C30_Witness ==
    /\ \E envelope \in net : "context" \notin DOMAIN envelope
    /\ \E envelope \in net :
           /\ "context" \in DOMAIN envelope
           /\ "taskId" \in DOMAIN envelope.context
    /\ issued = 1

-----------------------------------------------------------------------------
(* Creation of an execution *)

\* a mount.execute that was called without a context is running
C27_Creating(i) == inv[i].top /\ inv[i].pc /= "idle"

C27_BegunBeforeAnyTask ==
    \A i \in AllSlots :
        C27_Creating(i)
            => /\ inv[i].ctx.executionId \in DOMAIN inv[i].st0
               /\ inv[i].st0[inv[i].ctx.executionId] = EmptyTasks

\* in isolated mode the execution is in the store for as long as the
\* invocation that created it runs
C27_InProgressWhileIsolated ==
    \A i \in AllSlots :
        (C27_Creating(i) /\ mode = "ISOLATED")
            => isExecutionInProgress(store, inv[i].ctx.executionId)

\* a continuation published by the invocation that created the execution
\* is published for an execution that is in the store
C27_PublishedWhileInProgress ==
    \A i \in AllSlots : \A envelope \in net' \ net :
        (C27_Creating(i) /\ "context" \in DOMAIN envelope)
            => /\ envelope.context.executionId = inv[i].ctx.executionId
               /\ isExecutionInProgress(store', inv[i].ctx.executionId)

\* an execution leaves the store by disposal only
C27_UntilDisposed ==
    \A e \in DOMAIN store :
        ~isExecutionInProgress(store', e) => last'.type = "dispose"

-----------------------------------------------------------------------------
(* commitExecutionTaskResult of the three reference stores, for one task   *)
(* that is in progress, with an observer that calls                        *)
(* isExecutionTaskInProgress and getExecutionTaskResult while it runs.     *)
(* store is the entry of the task: whether its transaction marker is there *)
(* and its result; inv is the position of the committer and the observer.  *)

StoreKinds == {"memory", "filesystem", "redis"}

\* the values the engine commits
CommitValues == {"r1", "0", EMPTY_EXECUTION_RESULT}

\* the task after beginExecutionTask
TaskInProgress(kind) ==
    [kind |-> kind, transaction |-> TRUE, result |-> Undefined]

\* the committer has not called commitExecutionTaskResult; the observer has
\* made no call
NotCommitting ==
    [pc |-> "idle", value |-> Undefined, sent |-> {}, seen |-> <<>>]

CommitEv(type, value) ==
    [type |-> type, slot |-> 0, run |-> 0, step |-> 0, tid |-> <<>>,
     taskId |-> NoTaskId, value |-> value]

CommitInit ==
    /\ store \in {TaskInProgress(kind) : kind \in StoreKinds}
    /\ inv = NotCommitting
    /\ last = Event0
    /\ mount = <<>>
    /\ mode = "ISOLATED"
    /\ net = {}
    /\ issued = 1
    /\ alsEnabled = FALSE
    /\ slots = {}
    /\ calls = NoCalls
    /\ deliveries = 0
    /\ pending = {}
    /\ faults = 0
    /\ reported = <<>>
    /\ returned = NotReturned

CommitUnchanged ==
    UNCHANGED <<mount, mode, net, issued, alsEnabled, slots, calls,
                deliveries, pending, faults, reported, returned>>

\* the engine calls store.commitExecutionTaskResult(executionId, taskId,
\* value).  createMemoryStore: store[executionId][taskId] = { value } runs
\* within the call; the other stores start their first operation
CommitCalled(value) ==
    /\ inv.pc = "idle"
    /\ IF store.kind = "memory"
       THEN /\ store' = [store EXCEPT !.transaction = FALSE,
                                      !.result = value]
            /\ inv' = [inv EXCEPT !.pc = "resolving", !.value = value]
       ELSE /\ inv' = [inv EXCEPT !.pc = "committing", !.value = value]
            /\ UNCHANGED store
    /\ last' = CommitEv("commitExecutionTaskResult", value)
    /\ CommitUnchanged

\* createMemoryStore: the promise of the async function resolves
MemoryResolved ==
    /\ store.kind = "memory"
    /\ inv.pc = "resolving"
    /\ inv' = [inv EXCEPT !.pc = "committed"]
    /\ last' = CommitEv("resolved", inv.value)
    /\ UNCHANGED store
    /\ CommitUnchanged

\* createFileSystemStore: await fs.writeFile(getResultFile(...), ...)
FileSystemWriteResult ==
    /\ store.kind = "filesystem"
    /\ inv.pc = "committing"
    /\ store' = [store EXCEPT !.result = inv.value]
    /\ inv' = [inv EXCEPT !.pc = "unlink"]
    /\ last' = CommitEv("writeFile", inv.value)
    /\ CommitUnchanged

\* createFileSystemStore: await fs.unlink(getTransactionFile(...))
FileSystemUnlink ==
    /\ store.kind = "filesystem"
    /\ inv.pc = "unlink"
    /\ store' = [store EXCEPT !.transaction = FALSE]
    /\ inv' = [inv EXCEPT !.pc = "committed"]
    /\ last' = CommitEv("unlink", inv.value)
    /\ CommitUnchanged

\* the commands of Promise.all(operations) that the server has executed
RedisSent(command) ==
    [inv EXCEPT !.sent = @ \cup {command},
                !.pc = IF inv.sent \cup {command} = {"hdel", "hset"}
                       THEN "committed" ELSE "committing"]

\* createRedisStore: redis.hdel(`${executionId}-transactions`, taskId)
RedisHdel ==
    /\ store.kind = "redis"
    /\ inv.pc = "committing"
    /\ "hdel" \notin inv.sent
    /\ store' = [store EXCEPT !.transaction = FALSE]
    /\ inv' = RedisSent("hdel")
    /\ last' = CommitEv("hdel", inv.value)
    /\ CommitUnchanged

\* createRedisStore: redis.hset(`${executionId}-results`, { [taskId]: ... })
RedisHset ==
    /\ store.kind = "redis"
    /\ inv.pc = "committing"
    /\ "hset" \notin inv.sent
    /\ store' = [store EXCEPT !.result = inv.value]
    /\ inv' = RedisSent("hset")
    /\ last' = CommitEv("hset", inv.value)
    /\ CommitUnchanged

\* the calls the observer has made
Observed(call) == \E n \in 1..Len(inv.seen) : inv.seen[n].call = call

\* the observer calls store.isExecutionTaskInProgress(executionId, taskId)
ObserveInProgress ==
    /\ ~Observed("isExecutionTaskInProgress")
    /\ inv' = [inv EXCEPT !.seen =
                   Append(@, [call |-> "isExecutionTaskInProgress",
                              at |-> inv.pc,
                              transaction |-> store.transaction,
                              result |-> Undefined])]
    /\ last' = CommitEv("isExecutionTaskInProgress", Undefined)
    /\ UNCHANGED store
    /\ CommitUnchanged

\* the observer calls store.getExecutionTaskResult(executionId, taskId)
ObserveResult ==
    /\ ~Observed("getExecutionTaskResult")
    /\ inv' = [inv EXCEPT !.seen =
                   Append(@, [call |-> "getExecutionTaskResult",
                              at |-> inv.pc,
                              transaction |-> FALSE,
                              result |-> store.result])]
    /\ last' = CommitEv("getExecutionTaskResult", store.result)
    /\ UNCHANGED store
    /\ CommitUnchanged

CommitNext ==
    \/ \E value \in CommitValues : CommitCalled(value)
    \/ MemoryResolved
    \/ FileSystemWriteResult
    \/ FileSystemUnlink
    \/ RedisHdel
    \/ RedisHset
    \/ ObserveInProgress
    \/ ObserveResult

SpecCommit == CommitInit /\ [][CommitNext]_vars

-----------------------------------------------------------------------------
(* disposeExecution of the three reference stores while another invocation *)
(* of the same execution is between its isExecutionInProgress check and    *)
(* its store write.  store is the state of the one execution: whether its  *)
(* record exists (the key of the state object, the directory, the Redis    *)
(* key), the tasks with a transaction marker and the committed results;    *)
(* inv is the position of the disposing and of the writing invocation.     *)

\* the task the writing invocation is at
WriterTask == <<"f", ":", "s">>

\* the execution after beginExecution, and after beginExecutionTask of the
\* task when the writing invocation is about to commit it
ExecutionInStore(kind, op) ==
    [kind |-> kind, execution |-> TRUE,
     transactions |-> IF op = "commit" THEN {WriterTask} ELSE {},
     results |-> EmptyTasks]

\* the writing invocation is about to call isExecutionInProgress; the
\* disposing one has settled every function without error
BeforeDisposal(op, value) ==
    [disposer |-> "settled", deleted |-> {}, writer |-> "check", op |-> op,
     value |-> value]

DisposeInit ==
    /\ \E kind \in StoreKinds, op \in {"begin", "commit"},
          value \in CommitValues :
           /\ store = ExecutionInStore(kind, op)
           /\ inv = BeforeDisposal(op, value)
    /\ last = Event0
    /\ mount = <<>>
    /\ mode = "ISOLATED"
    /\ net = {}
    /\ issued = 1
    /\ alsEnabled = FALSE
    /\ slots = {}
    /\ calls = NoCalls
    /\ deliveries = 0
    /\ pending = {}
    /\ faults = 0
    /\ reported = <<>>
    /\ returned = NotReturned

\* createMemoryStore.disposeExecution and createFileSystemStore
\* .disposeExecution: delete store[executionId]; fs.rm(dir, { recursive,
\* force })
DisposeAtOnce ==
    /\ store.kind \in {"memory", "filesystem"}
    /\ inv.disposer = "settled"
    /\ IF store.kind = "memory" /\ ~store.execution
       THEN \* Execution not found, cannot dispose
            /\ inv' = [inv EXCEPT !.disposer = "rejected"]
            /\ UNCHANGED store
       ELSE /\ store' = [store EXCEPT !.execution = FALSE,
                                      !.transactions = {},
                                      !.results = EmptyTasks]
            /\ inv' = [inv EXCEPT !.disposer = "disposed"]
    /\ last' = CommitEv("disposeExecution", Undefined)
    /\ CommitUnchanged

RedisKeys == {"execution", "transactions", "results"}

\* createRedisStore.disposeExecution: one of the three redis.del commands
\* of Promise.all is executed
RedisDel(key) ==
    /\ store.kind = "redis"
    /\ inv.disposer = "settled"
    /\ key \notin inv.deleted
    /\ store' = [store EXCEPT
           !.execution = IF key = "execution" THEN FALSE ELSE @,
           !.transactions = IF key = "transactions" THEN {} ELSE @,
           !.results = IF key = "results" THEN EmptyTasks ELSE @]
    /\ inv' = [inv EXCEPT
           !.deleted = @ \cup {key},
           !.disposer = IF inv.deleted \cup {key} = RedisKeys
                        THEN "disposed" ELSE "settled"]
    /\ last' = CommitEv("del", Undefined)
    /\ CommitUnchanged

\* dispatchEventToFunctions of the writing invocation:
\* store.isExecutionInProgress(context.executionId)
WriterChecks ==
    /\ inv.writer = "check"
    /\ inv' = [inv EXCEPT !.writer = IF store.execution THEN "write"
                                     ELSE "skipped"]
    /\ last' = CommitEv("isExecutionInProgress", Undefined)
    /\ UNCHANGED store
    /\ CommitUnchanged

\* store[executionId][taskId] = ... of the in-memory store throws a
\* TypeError, fs.writeFile rejects with ENOENT, when the record of the
\* execution is gone; HSET creates the hash
WriteFails == store.kind \in {"memory", "filesystem"} /\ ~store.execution

\* the writing invocation calls store.beginExecutionTask or
\* store.commitExecutionTaskResult
WriterWrites ==
    /\ inv.writer = "write"
    /\ IF WriteFails
       THEN /\ inv' = [inv EXCEPT !.writer = "rejected"]
            /\ UNCHANGED store
       ELSE /\ store' =
                  IF inv.op = "begin"
                  THEN [store EXCEPT !.transactions = @ \cup {WriterTask}]
                  ELSE [store EXCEPT
                           !.transactions = @ \ {WriterTask},
                           !.results = (WriterTask :> inv.value) @@ @]
            /\ inv' = [inv EXCEPT !.writer = "written"]
    /\ last' = CommitEv(IF inv.op = "begin" THEN "beginExecutionTask"
                        ELSE "commitExecutionTaskResult", inv.value)
    /\ CommitUnchanged

DisposeNext ==
    \/ DisposeAtOnce
    \/ \E key \in RedisKeys : RedisDel(key)
    \/ WriterChecks
    \/ WriterWrites

SpecDispose == DisposeInit /\ [][DisposeNext]_vars

-----------------------------------------------------------------------------
(* Invocations that run at the same time *)

\* the step the engine just took was a beginExecutionTask of a path that
\* had no entry in the store
C31_BeginOfFreshPath ==
    last'.type = "begin"
        => \A e \in DOMAIN store : last'.tid \notin DOMAIN store[e]

(* C31: when two invocations of one execution reach the same step that has *)
(* not been started, at most one of them performs beginExecutionTask and   *)
(* enqueues a continuation for the path; the other one finds the step in   *)
(* progress and is interrupted, so a path is begun at most once.           *)
C31_FirstWriterWins == [][C31_BeginOfFreshPath]_vars

-----------------------------------------------------------------------------
(* Atomicity of commitExecutionTaskResult *)

\* the observer made both calls, the first of them while
\* commitExecutionTaskResult was running
C32_ObservedWhileCommitting ==
    /\ Len(inv.seen) = 2
    /\ inv.seen[1].at \in {"resolving", "committing", "unlink"}

\* what the two calls of the observer returned
C32_SeenInProgress == \E n \in 1..2 : inv.seen[n].transaction

C32_SeenCommitted == \E n \in 1..2 : inv.seen[n].result /= Undefined

(* C32: for each reference store, while commitExecutionTaskResult runs for *)
(* a path that is in progress, an observer that calls                      *)
(* isExecutionTaskInProgress and getExecutionTaskResult never finds the    *)
(* path neither in progress nor committed.                                 *)
C32_NeverNeither ==
    C32_ObservedWhileCommitting => C32_SeenInProgress \/ C32_SeenCommitted

-----------------------------------------------------------------------------
(* Writes after disposal *)

\* the store holds nothing for the execution
C33_NoState ==
    /\ ~store.execution
    /\ store.transactions = {}
    /\ store.results = EmptyTasks

\* once disposeExecution has completed the store holds no state for the
\* execution
C33_DisposedIsEmpty == inv.disposer = "disposed" => C33_NoState

\* once disposeExecution has completed no invocation writes task state
C33_NoWriteAfterDisposal ==
    inv.disposer = "disposed"
        => /\ store'.transactions = store.transactions
           /\ store'.results = store.results

(* C33: after disposeExecution(e) has completed no invocation writes task  *)
(* state for e, also when it passed its isExecutionInProgress check before *)
(* the disposal; the store holds no state for a disposed execution.        *)
C33_NothingAfterDisposal ==
    []C33_DisposedIsEmpty /\ [][C33_NoWriteAfterDisposal]_vars

-----------------------------------------------------------------------------
(* Paths of nested execute calls *)

\* execute has just computed the full task id of a call that the body of
\* the handler, or of a callback, made after an earlier call had returned:
\* the body was suspended in between
C34_PathComputed ==
    /\ last.type \in {"enter", "pass"}
    /\ last.step > 0
    /\ LET steps == targetFunctions[last.run].steps
       IN  \E j \in 1..(last.step - 1) :
               steps[j].parent = steps[last.step].parent

(* C34: the full path computed for an execute call is the function id      *)
(* followed by the keys of the enclosing execute calls and the key of the  *)
(* call, joined by ":", also when another invocation publishes a           *)
(* continuation while the handler is suspended between two execute calls.  *)
C34_FullPathIsStatic ==
    C34_PathComputed
        => last.tid = StaticPath(targetFunctions[last.run], last.step)

-----------------------------------------------------------------------------
(* A handler that starts its execute calls at once:                        *)
(* await Promise.all(stores.map((store) => execute(key, callback))).       *)
(* inv is the one invocation of mount.execute that runs at a time, with    *)
(* every execute call made so far: call <<g, 0>> is the call that the      *)
(* dispatchEventToFunctions number g made with the function id, call      *)
(* <<g, s>> the call of step s made by the handler that call entered; the  *)
(* number n of the invocation precedes both.                               *)

\* update-inventory of the example application: the steps are started
\* together
MountParallel ==
    << createFunction(<<"f">>, {"foo"},
          << Step(<<"a">>, 0, "none", {"r1"}, FALSE),
             Step(<<"b">>, 0, "none", {"r2"}, TRUE) >>) >>

ParallelFunc == MountParallel[1]

ParallelSteps == 1..Len(ParallelFunc.steps)

\* the full task id of the call of step s, 0 for the function itself
ParallelTid(s) ==
    IF s = 0 THEN FullTaskId(<<>>, ParallelFunc.id)
    ELSE FullTaskId(FullTaskId(<<>>, ParallelFunc.id),
                    ParallelFunc.steps[s].key)

NoInvocation ==
    [pc |-> "idle", n |-> 0, ctx |-> NoContext, head |-> NoContext,
     queue |-> <<>>, gen |-> 0, calls |-> << >>, caches |-> << >>]

ParallelInit ==
    /\ mount = MountParallel
    /\ mode \in Modes
    /\ store = EmptyStore
    /\ net = {Stringify(Event, NoContext)}
    /\ pending = {Stringify(Event, NoContext)}
    /\ inv = NoInvocation
    /\ issued = 0
    /\ alsEnabled = FALSE
    /\ slots = {}
    /\ calls = NoCalls
    /\ deliveries = 0
    /\ faults = 0
    /\ last = Event0
    /\ reported = <<>>
    /\ returned = NotReturned

ParallelUnchanged ==
    UNCHANGED <<mount, mode, issued, alsEnabled, slots, deliveries, faults,
                reported>>

\* the promise of the call has settled, or will never settle
CallEnded(call) == call.pc \in {"returned", "interrupted", "rejected"}

\* the calls that go on; the others are history
Unsettled(all) ==
    [c \in {d \in DOMAIN all : ~CallEnded(all[d])} |-> all[c]]

\* history: an engine event of call c == <<n, g, s>>
ParallelEv(type, c, tid, value) ==
    Ev(type, c[1], c[2], c[3], tid, inv.head.taskId, value)

\* the handler has not run MaxCalls times, or context does not make it run
HandlerMayRun(context) ==
    Targets(context.taskId, ParallelTid(0))
        => Count(calls, <<context.executionId, ParallelTid(0)>>) < MaxCalls

\* the transport delivers an envelope: mount.process -> mount.execute up to
\* store.beginExecution
ParallelDeliver(envelope) ==
    /\ inv.pc = "idle"
    /\ envelope \in pending
    /\ HandlerMayRun(ParseContext(envelope))
    /\ LET given == ParseContext(envelope)
           context == IF given = NoContext
                      THEN Context(generateExecutionId(0), Timestamp, NoTaskId)
                      ELSE given
       IN  /\ store' = IF given = NoContext
                       THEN beginExecution(store, context.executionId)
                       ELSE store
           /\ inv' = [inv EXCEPT !.pc = "prefetch", !.n = @ + 1,
                                 !.ctx = context, !.head = NoContext,
                                 !.queue = <<>>, !.gen = 0,
                                 !.calls = Unsettled(@)]
    /\ pending' = pending \ {envelope}
    /\ last' = Ev("execute", inv.n + 1, 0, 0, <<>>, NoTaskId, Undefined)
    /\ UNCHANGED <<net, calls, returned>>
    /\ ParallelUnchanged

\* lines 304-308
ParallelPrefetch ==
    /\ inv.pc = "prefetch"
    /\ inv' = [inv EXCEPT
           !.pc = "loop",
           !.queue = <<inv.ctx>>,
           !.caches = (inv.n :> getExecutionTaskResults(
                                    store, inv.ctx.executionId)) @@ @]
    /\ last' = Ev("prefetch", inv.n, 0, 0, <<>>, inv.ctx.taskId, Undefined)
    /\ UNCHANGED <<store, net, pending, calls, returned>>
    /\ ParallelUnchanged

\* history: mount.execute settled with `outcome`
ParallelReturned(outcome) ==
    [NotReturned EXCEPT !.outcome = outcome, !.ctx = inv.ctx]

\* lines 312 and 58-63: the next context of the queue, or the end of
\* mount.execute
ParallelShift ==
    /\ inv.pc = "loop"
    /\ IF inv.queue = <<>>
       THEN /\ inv' = [inv EXCEPT !.pc = "idle"]
            /\ returned' = ParallelReturned("resolved")
            /\ last' = Ev("resolved", inv.n, 0, 0, <<>>, inv.ctx.taskId,
                          Undefined)
       ELSE LET head == Head(inv.queue)
                g == inv.gen + 1
            IN  /\ IF ~isExecutionInProgress(store, head.executionId)
                   THEN /\ inv' = [inv EXCEPT !.queue = Tail(@),
                                              !.head = head]
                        /\ last' = Ev("skipped", inv.n, 0, 0, <<>>,
                                      head.taskId, Undefined)
                   ELSE /\ HandlerMayRun(head)
                        /\ inv' = [inv EXCEPT
                               !.queue = Tail(@),
                               !.head = head,
                               !.pc = "running",
                               !.gen = g,
                               !.calls = (<<inv.n, g, 0>> :>
                                   [pc |-> "call", n |-> inv.n,
                                    tid |-> <<>>, res |-> Undefined])
                                       @@ Unsettled(@)]
                        /\ last' = Ev("dispatch", inv.n, 0, 0, <<>>,
                                      head.taskId, Undefined)
                /\ UNCHANGED returned
    /\ UNCHANGED <<store, net, pending, calls>>
    /\ ParallelUnchanged

\* the call of step s of the handler that call c entered
StepCall(c, s) == <<c[1], c[2], s>>

\* the call made with the function id whose handler made call c
FunctionCall(c) == <<c[1], c[2], 0>>

(* lines 129-178 for the call made with the function id: when the inbound  *)
(* task id starts with the function id the handler runs and makes the      *)
(* execute call of every step before it awaits; a step whose path the      *)
(* inbound task id starts with has its callback invoked                    *)
ParallelEnter(c) ==
    /\ c \in DOMAIN inv.calls
    /\ inv.calls[c].pc = "call"
    /\ LET e == inv.head.executionId
           entered == {s \in ParallelSteps :
                           Targets(inv.head.taskId, ParallelTid(s))}
           made == [d \in {StepCall(c, s) : s \in ParallelSteps} |->
                       [pc |-> IF d[3] \in entered THEN "callback"
                               ELSE "getResult",
                        n |-> c[1], tid |-> ParallelTid(d[3]),
                        res |-> Undefined]]
           invoked == {<<e, ParallelTid(s)>> : s \in entered \cup {0}}
       IN  IF Targets(inv.head.taskId, ParallelTid(0))
           THEN /\ inv' = [inv EXCEPT !.calls =
                       made @@ [@ EXCEPT ![c].pc = "handler",
                                         ![c].tid = ParallelTid(0)]]
                /\ calls' = [key \in DOMAIN calls \cup invoked |->
                                Count(calls, key)
                                    + (IF key \in invoked THEN 1 ELSE 0)]
                /\ last' = ParallelEv("enter", c, ParallelTid(0), Undefined)
           ELSE /\ inv' = [inv EXCEPT !.calls[c].pc = "getResult",
                                      !.calls[c].tid = ParallelTid(0)]
                /\ last' = ParallelEv("pass", c, ParallelTid(0), Undefined)
                /\ UNCHANGED calls
    /\ UNCHANGED <<store, net, pending, returned>>
    /\ ParallelUnchanged

\* call c throws err.  The wrapper of a step call passes an Interrupt to
\* reject of the function's promise and leaves the step's promise pending,
\* and passes any other error to the handler, whose Promise.all rejects;
\* reject has no effect on a promise that is settled
ParallelThrow(all, c, err) ==
    LET pc == IF err = Interrupt THEN "interrupted" ELSE "rejected"
        f == FunctionCall(c)
    IN  [d \in DOMAIN all |->
            IF d = c \/ (d = f /\ all[f].pc = "handler")
            THEN [all[d] EXCEPT !.pc = pc] ELSE all[d]]

\* call c returns value v to the body that awaits it
ParallelReturn(all, c, v) == [all EXCEPT ![c].pc = "returned", ![c].res = v]

ParallelCache(c) == inv.caches[c[1]]

(* lines 200-212 *)
ParallelGetResult(c) ==
    /\ c \in DOMAIN inv.calls
    /\ inv.calls[c].pc = "getResult"
    /\ LET tid == inv.calls[c].tid
           executionResult == getExecutionTaskResultCached(
               ParallelCache(c), store, inv.ctx.executionId, tid)
       IN  IF executionResult /= Undefined
           THEN /\ inv' = [inv EXCEPT !.calls = ParallelReturn(
                               @, c, FromStored(executionResult))]
                /\ last' = ParallelEv("hit", c, tid,
                                      FromStored(executionResult))
           ELSE /\ inv' = [inv EXCEPT !.calls[c].pc = "isInProgress"]
                /\ last' = ParallelEv("miss", c, tid, Undefined)
    /\ UNCHANGED <<store, net, pending, calls, returned>>
    /\ ParallelUnchanged

(* lines 214-221 *)
ParallelCheckInProgress(c) ==
    /\ c \in DOMAIN inv.calls
    /\ inv.calls[c].pc = "isInProgress"
    /\ LET tid == inv.calls[c].tid
       IN  IF isExecutionTaskInProgress(store, inv.ctx.executionId, tid)
           THEN /\ inv' = [inv EXCEPT !.calls =
                               ParallelThrow(@, c, Interrupt)]
                /\ last' = ParallelEv("in progress", c, tid, Undefined)
           ELSE /\ inv' = [inv EXCEPT !.calls[c].pc = "begin"]
                /\ last' = ParallelEv("free", c, tid, Undefined)
    /\ UNCHANGED <<store, net, pending, calls, returned>>
    /\ ParallelUnchanged

(* line 224 *)
ParallelBeginTask(c) ==
    /\ c \in DOMAIN inv.calls
    /\ inv.calls[c].pc = "begin"
    /\ LET tid == inv.calls[c].tid
           e == inv.ctx.executionId
       IN  IF e \in DOMAIN store
           THEN /\ store' = beginExecutionTask(store, e, tid)
                /\ inv' = [inv EXCEPT !.calls[c].pc = "enqueueBegin"]
                /\ last' = ParallelEv("begin", c, tid, Undefined)
           ELSE \* store[executionId] is undefined: TypeError
                /\ inv' = [inv EXCEPT !.calls =
                               ParallelThrow(@, c, HandlerError)]
                /\ last' = ParallelEv("store error", c, tid, Undefined)
                /\ UNCHANGED store
    /\ UNCHANGED <<net, pending, calls, returned>>
    /\ ParallelUnchanged

\* enqueueTask(taskId) of call c, lines 318-335: the queue is the one of
\* the invocation that made the call
ParallelEnqueueTask(c, taskId) ==
    LET context == ContinuationContext(inv.ctx, taskId)
    IN  IF mode = "UNTIL_ERROR"
        THEN /\ inv' = [inv EXCEPT
                    !.queue = IF c[1] = inv.n /\ inv.pc /= "idle"
                              THEN Append(@, context) ELSE @,
                    !.calls = ParallelThrow(@, c, Interrupt)]
             /\ UNCHANGED <<net, pending>>
        ELSE /\ net' = net \cup {Stringify(Event, context)}
             /\ pending' = pending \cup {Stringify(Event, context)}
             /\ inv' = [inv EXCEPT !.calls = ParallelThrow(@, c, Interrupt)]

(* lines 226-229 *)
ParallelEnqueueBegin(c) ==
    /\ c \in DOMAIN inv.calls
    /\ inv.calls[c].pc = "enqueueBegin"
    /\ ParallelEnqueueTask(c, inv.calls[c].tid)
    /\ last' = ParallelEv("enqueue", c, inv.calls[c].tid, Undefined)
    /\ UNCHANGED <<store, calls, returned>>
    /\ ParallelUnchanged

(* lines 138-177: the callback of a step settles *)
ParallelCallbackSettles(c) ==
    /\ c \in DOMAIN inv.calls
    /\ inv.calls[c].pc = "callback"
    /\ LET step == ParallelFunc.steps[c[3]]
       IN  \/ \E result \in step.returns :
                /\ inv' = [inv EXCEPT !.calls[c].pc = "commit",
                                      !.calls[c].res = result]
                /\ last' = ParallelEv("resolve", c, inv.calls[c].tid, result)
           \/ /\ step.throws
              /\ inv' = [inv EXCEPT !.calls =
                             ParallelThrow(@, c, HandlerError)]
              /\ last' = ParallelEv("throw", c, inv.calls[c].tid, Undefined)
    /\ UNCHANGED <<store, net, pending, calls, returned>>
    /\ ParallelUnchanged

(* lines 138-177: Promise.all of the handler resolves when every step call *)
(* has returned, and the handler returns                                   *)
ParallelHandlerResolves(c) ==
    /\ c \in DOMAIN inv.calls
    /\ inv.calls[c].pc = "handler"
    /\ \A s \in ParallelSteps : inv.calls[StepCall(c, s)].pc = "returned"
    /\ inv' = [inv EXCEPT !.calls[c].pc = "commit"]
    /\ last' = ParallelEv("resolve", c, inv.calls[c].tid, Undefined)
    /\ UNCHANGED <<store, net, pending, calls, returned>>
    /\ ParallelUnchanged

(* lines 180-186 *)
ParallelCommit(c) ==
    /\ c \in DOMAIN inv.calls
    /\ inv.calls[c].pc = "commit"
    /\ LET tid == inv.calls[c].tid
           e == inv.ctx.executionId
           value == ToStored(inv.calls[c].res)
           cached == [inv EXCEPT !.caches[c[1]] = (tid :> value) @@ @]
       IN  IF e \in DOMAIN store
           THEN /\ store' = commitExecutionTaskResult(store, e, tid, value)
                /\ inv' = [cached EXCEPT !.calls[c].pc = "enqueueCommit"]
                /\ last' = ParallelEv("commit", c, tid, value)
           ELSE \* store[executionId] is undefined: TypeError
                /\ inv' = [cached EXCEPT !.calls =
                               ParallelThrow(@, c, HandlerError)]
                /\ last' = ParallelEv("store error", c, tid, Undefined)
                /\ UNCHANGED store
    /\ UNCHANGED <<net, pending, calls, returned>>
    /\ ParallelUnchanged

(* lines 188-197 *)
ParallelEnqueueCommit(c) ==
    /\ c \in DOMAIN inv.calls
    /\ inv.calls[c].pc = "enqueueCommit"
    /\ ParallelEnqueueTask(c, ParentTaskId(inv.calls[c].tid))
    /\ last' = ParallelEv("enqueue", c, inv.calls[c].tid, Undefined)
    /\ UNCHANGED <<store, calls, returned>>
    /\ ParallelUnchanged

(* lines 65-88 and 338-344: the call made with the function id settled *)
ParallelSettle ==
    /\ inv.pc = "running"
    /\ LET c == <<inv.n, inv.gen, 0>>
           e == inv.head.executionId
       IN  /\ CallEnded(inv.calls[c])
           /\ IF inv.calls[c].pc = "interrupted"
              THEN /\ inv' = [inv EXCEPT !.pc = "loop"]
                   /\ last' = ParallelEv("suspended", c, <<>>, Undefined)
                   /\ UNCHANGED <<store, pending, returned>>
              ELSE IF inv.calls[c].pc = "returned" /\ e \in DOMAIN store
              THEN /\ store' = disposeExecution(store, e)
                   /\ inv' = [inv EXCEPT !.pc = "loop"]
                   /\ last' = ParallelEv("dispose", c, <<>>, Undefined)
                   /\ UNCHANGED <<pending, returned>>
              ELSE \* mount.execute rejects; the dispatcher does not
                   \* deliver the envelope again
                   /\ inv' = [inv EXCEPT !.pc = "idle"]
                   /\ returned' = ParallelReturned("rejected")
                   /\ last' = ParallelEv("rejected", c, <<>>, Undefined)
                   /\ UNCHANGED <<store, pending>>
    /\ UNCHANGED <<net, calls>>
    /\ ParallelUnchanged

ParallelNext ==
    \/ \E envelope \in net : ParallelDeliver(envelope)
    \/ ParallelPrefetch
    \/ ParallelShift
    \/ ParallelSettle
    \/ \E c \in DOMAIN inv.calls : ParallelEnter(c)
    \/ \E c \in DOMAIN inv.calls : ParallelGetResult(c)
    \/ \E c \in DOMAIN inv.calls : ParallelCheckInProgress(c)
    \/ \E c \in DOMAIN inv.calls : ParallelBeginTask(c)
    \/ \E c \in DOMAIN inv.calls : ParallelEnqueueBegin(c)
    \/ \E c \in DOMAIN inv.calls : ParallelCallbackSettles(c)
    \/ \E c \in DOMAIN inv.calls : ParallelHandlerResolves(c)
    \/ \E c \in DOMAIN inv.calls : ParallelCommit(c)
    \/ \E c \in DOMAIN inv.calls : ParallelEnqueueCommit(c)

SpecParallel == ParallelInit /\ [][ParallelNext]_vars

-----------------------------------------------------------------------------
(* Settling of mount.execute *)

(* C35: when mount.execute has resolved or rejected, no step callback that *)
(* the invocation started is still running and no store write or publish   *)
(* of the invocation is still to come, also for a handler that starts      *)
(* several execute calls at once.                                          *)
C35_NothingOutlivesInvocation ==
    \A c \in DOMAIN inv.calls :
        ~CallEnded(inv.calls[c]) => c[1] = inv.n /\ inv.pc /= "idle"

-----------------------------------------------------------------------------
(* Termination of the run-until-error loop *)

\* mount.execute is running in slot i
C36_Running(i) == inv[i].pc /= "idle"

(* C36: in run-until-error mode every invocation of mount.execute comes to *)
(* its end: the queue becomes empty after finitely many pops, or an error  *)
(* that is not an Interrupt ends the loop, also when a step callback       *)
(* throws and the handler catches the error.                               *)
C36_UntilErrorTerminates ==
    \A i \in AllSlots : C36_Running(i) ~> ~C36_Running(i)

\* mount.execute resolved after a step callback threw and the handler
\* caught the error and made its next execute call
C36_Witness ==
    /\ mode = "UNTIL_ERROR"
    /\ mount = MountCatch
    /\ returned.outcome = "resolved"
    /\ returned.threw
    /\ \E n \in 1..Len(returned.order) :
           returned.order[n] = StaticPath(mount[1], 1)
    /\ \E e \in DOMAIN store : StaticPath(mount[1], 2) \in DOMAIN store[e]

-----------------------------------------------------------------------------
(* The dispatcher of setupWorker: dispatch(data) awaits                    *)
(* mount.process(data), so that publish returns when the invocation it     *)
(* caused has returned.  A slot holds one invocation; parent is the        *)
(* execute call whose publish awaits it, als the store that                *)
(* pathAsyncLocalStore holds for the asynchronous context in which         *)
(* mount.process was called.                                               *)

\* invocations that await one another
MaxNesting == 12

SyncSlots == 1..MaxNesting

NoParent == <<>>

NestedInv(parent, als) == [parent |-> parent, als |-> als] @@ IdleInv

\* variant: the path store is left enabled
disable_Skipped(enabled) == enabled

\* pathAsyncLocalStore.disable()
disable(enabled) == FALSE

\* the mounts with one function for the event, with callbacks that may
\* throw and with callbacks that never throw
SyncMounts ==
    LET single == {MountSequential, MountNested, MountLoop, MountCatch}
    IN  single \cup {WithoutThrows(functions) : functions \in single}

\* worker.mount({ functions }): executionMode = "ISOLATED"
SyncInit ==
    /\ mount \in SyncMounts
    /\ mode = "ISOLATED"
    /\ faults = 0
    /\ store = EmptyStore
    /\ net = {}
    /\ issued = 0
    /\ alsEnabled = FALSE
    /\ slots = SyncSlots
    /\ inv = [i \in SyncSlots |-> IdleInv]
    /\ calls = NoCalls
    /\ deliveries = 0
    /\ last = Event0
    /\ pending = {}
    /\ reported = <<>>
    /\ returned = NotReturned

\* a slot that holds no invocation
FreeSlot(j) ==
    /\ j \in slots
    /\ inv[j].pc = "idle"
    /\ \A l \in slots : inv[l].pc = "idle" => j <= l

(* publish(event) of the test: dispatcher.dispatch -> mount.process ->     *)
(* mount.execute(event, undefined) up to store.beginExecution              *)
SyncDispatch ==
    \E envelope \in pending : \E j \in slots :
        /\ FreeSlot(j)
        /\ issued < Len(ExecIds)
        /\ LET context == Context(generateExecutionId(issued), Timestamp,
                                  NoTaskId)
           IN  /\ store' = beginExecution(store, context.executionId)
               /\ inv' = [inv EXCEPT ![j] =
                      [NestedInv(NoParent, <<>>) EXCEPT
                          !.pc = "prefetch", !.ctx = context, !.top = TRUE,
                          !.st0 = store', !.calls0 = calls]]
               /\ last' = Ev("execute", j, 0, 0, <<>>, NoTaskId, Undefined)
        /\ issued' = issued + 1
        /\ pending' = pending \ {envelope}
        /\ UNCHANGED <<mount, mode, net, alsEnabled, slots, calls,
                       deliveries, faults, reported, returned>>

(* lines 129-135, with the store that pathAsyncLocalStore holds for the    *)
(* context of the caller of mount.process when the call is not inside a    *)
(* callback of this invocation                                             *)
SyncExecuteCall(i, k) ==
    /\ Running(i, k, "call")
    /\ LET r == inv[i].runs[k]
           func == Func(k)
           path == getStore(alsEnabled,
                            [r EXCEPT !.frames = inv[i].als \o @])
           fullTaskId == FullTaskId(path, StepAt(func, r.cur).key)
           e == inv[i].head.executionId
       IN  IF Targets(inv[i].head.taskId, fullTaskId)
           THEN LET first == NextCall(func, r.cur, 0)
                    in == [r EXCEPT !.frames = Append(@, [step |-> r.cur,
                                                       tid |-> fullTaskId]),
                                    !.tid = fullTaskId,
                                    !.entered = @ \cup {r.cur}]
                IN  /\ inv' = [inv EXCEPT
                          ![i].order = Append(@, fullTaskId),
                          ![i].runs[k] =
                              IF first = 0
                              THEN [RanToEnd(in, r.cur) EXCEPT
                                       !.pc = "callback"]
                              ELSE [in EXCEPT !.pc = "call", !.cur = first]]
                    /\ alsEnabled' = TRUE
                    /\ calls' = Bump(calls, <<e, fullTaskId>>)
                    /\ last' = Ev("enter", i, k, r.cur, fullTaskId,
                                  inv[i].head.taskId, Undefined)
           ELSE /\ inv' = [inv EXCEPT ![i].runs[k].tid = fullTaskId,
                                      ![i].runs[k].pc = "getResult"]
                /\ last' = Ev("pass", i, k, r.cur,
                              fullTaskId, inv[i].head.taskId,
                              Undefined)
                /\ UNCHANGED <<alsEnabled, calls>>
    /\ UNCHANGED <<mount, mode, store, net, issued, slots, deliveries,
                   pending, faults, reported, returned>>

\* the task id that the execute call of run r hands to enqueueTask
EnqueuedTaskId(r) ==
    IF r.pc \in {"enqueueBegin", "publishBegin"} THEN r.tid
    ELSE ParentTaskId(r.tid)

(* enqueueTask(taskId), lines 328-333, up to the call of mount.execute     *)
(* that dispatch makes: the invocation takes a slot and the execute call   *)
(* awaits it                                                               *)
SyncEnqueue(i, k) ==
    /\ \/ Running(i, k, "enqueueBegin")
       \/ Running(i, k, "enqueueCommit")
    /\ \E j \in slots :
        /\ FreeSlot(j)
        /\ LET r == inv[i].runs[k]
               taskId == EnqueuedTaskId(r)
               envelope == Stringify(Event,
                               ContinuationContext(inv[i].ctx, taskId))
               given == ParseContext(envelope)
           IN  /\ alsEnabled' = disable(alsEnabled)
               /\ net' = net \cup {envelope}
               /\ inv' = [inv EXCEPT
                      ![i].pubs = Append(@, given),
                      ![i].runs[k].pc =
                          IF r.pc = "enqueueBegin" THEN "publishBegin"
                          ELSE "publishCommit",
                      ![j] = [NestedInv(<<i, k>>,
                                        IF alsEnabled'
                                        THEN inv[i].als \o r.frames
                                        ELSE <<>>) EXCEPT
                                 !.pc = "prefetch", !.ctx = given,
                                 !.st0 = store, !.calls0 = calls]]
               /\ last' = Ev("enqueue", i, k, r.cur, r.tid, taskId,
                             Undefined)
    /\ UNCHANGED <<mount, mode, store, issued, slots, calls, deliveries,
                   pending, faults, reported, returned>>

\* mount.execute of slot j is about to reject
Rejecting(j) ==
    /\ inv[j].pc = "running"
    /\ \A k \in 1..Len(inv[j].runs) : RunEnded(inv[j].runs[k])
    /\ LET errors == Errors(inv[j].runs)
       IN  IF Len(errors) > 0 THEN errors[1] /= Interrupt
           ELSE inv[j].head.executionId \notin DOMAIN store

\* mount.execute of slot j is about to resolve
Resolving(j) == inv[j].pc = "loop" /\ inv[j].queue = <<>>

\* the invocation was started by the publish of an execute call
Nested(j) == inv[j].pc /= "idle" /\ inv[j].parent /= NoParent

(* the invocation of slot j resolves: dispatch and publish resolve, and    *)
(* the execute call that awaited them throws its Interrupt, lines 193 and  *)
(* 227                                                                     *)
SyncResolve(j) ==
    /\ Nested(j)
    /\ Resolving(j)
    /\ LET i == inv[j].parent[1]
           k == inv[j].parent[2]
           r == inv[i].runs[k]
           sent == [r EXCEPT
                       !.why = IF r.pc = "publishBegin" THEN "triggered"
                               ELSE "committed",
                       !.stop = r.cur,
                       !.pub = Append(@, inv[j].ctx)]
       IN  /\ inv' = [inv EXCEPT
                  ![j] = IdleInv,
                  ![i].runs[k] = Throw(Func(k), sent, Interrupt)]
           /\ returned' = Returned(inv[j], "resolved", store, calls)
           /\ last' = Ev("resolved", j, 0, 0, <<>>, inv[j].ctx.taskId,
                         Undefined)
    /\ UNCHANGED <<mount, mode, store, net, issued, alsEnabled, slots, calls,
                   deliveries, pending, faults, reported>>

(* the invocation of slot j rejects: dispatch, publish and enqueueTask     *)
(* reject, and the execute call that awaited them throws the error         *)
SyncReject(j) ==
    /\ Nested(j)
    /\ Rejecting(j)
    /\ LET i == inv[j].parent[1]
           k == inv[j].parent[2]
       IN  /\ inv' = [inv EXCEPT
                  ![j] = IdleInv,
                  ![i].runs[k] = Throw(Func(k), inv[i].runs[k],
                                       HandlerError)]
           /\ returned' = Returned(inv[j], "rejected", store, calls)
           /\ last' = Ev("rejected", j, 0, 0, <<>>, inv[j].ctx.taskId,
                         Undefined)
    /\ UNCHANGED <<mount, mode, store, net, issued, alsEnabled, slots, calls,
                   deliveries, pending, faults, reported>>

\* the queue loop of an invocation; the end of a nested one is SyncResolve
SyncShift(i) == ~(Nested(i) /\ Resolving(i)) /\ Shift(i)

\* the functions of an invocation settled; the rejection of a nested one is
\* SyncReject
SyncSettle(i) == ~(Nested(i) /\ Rejecting(i)) /\ Settle(i)

SyncEngine ==
    \/ SyncDispatch
    \/ \E i \in slots : Prefetch(i)
    \/ \E i \in slots : SyncShift(i)
    \/ \E i \in slots : SyncSettle(i)
    \/ \E i \in slots : SyncResolve(i)
    \/ \E i \in slots : SyncReject(i)
    \/ \E i \in slots : \E k \in 1..Len(mount) : SyncExecuteCall(i, k)
    \/ \E i \in slots : \E k \in 1..Len(mount) : GetResult(i, k)
    \/ \E i \in slots : \E k \in 1..Len(mount) : CheckInProgress(i, k)
    \/ \E i \in slots : \E k \in 1..Len(mount) : BeginTask(i, k)
    \/ \E i \in slots : \E k \in 1..Len(mount) : SyncEnqueue(i, k)
    \/ \E i \in slots : \E k \in 1..Len(mount) : CallbackSettles(i, k)
    \/ \E i \in slots : \E k \in 1..Len(mount) : Commit(i, k)

SyncNext == Publish \/ SyncEngine

\* the event loop runs every continuation that is ready
SpecSync == SyncInit /\ [][SyncNext]_vars /\ WF_vars(SyncEngine)

-----------------------------------------------------------------------------
(* publish with the dispatcher of setupWorker *)

\* worker.publish(event) was called and has settled
C37_Settled == issued = 1 /\ \A i \in slots : inv[i].pc = "idle"

\* no callback of the mount throws
C37_NeverThrows == mount = WithoutThrows(mount)

\* the steps whose callback makes no execute call; the callback of any
\* other step is run again for every step inside it, as a handler is
C37_LeafSteps ==
    {s \in 1..Len(targetFunctions[1].steps) :
         NextCall(targetFunctions[1], s, 0) = 0}

\* publish resolved, the execution is disposed of and every step callback
\* was invoked once
C37_ResolvedWhenDone ==
    /\ returned.outcome = "resolved"
    /\ store = EmptyStore
    /\ \A e \in Range(ExecIds) : \A s \in C37_LeafSteps :
           Count(calls, <<e, StaticPath(targetFunctions[1], s)>>) = 1

(* C37: with a dispatcher that awaits mount.process inside dispatch,       *)
(* worker.publish(event) comes to an end: the nested invocations do not    *)
(* go on for ever, and when no callback throws every step callback has     *)
(* been invoked exactly once and the execution has been disposed of when   *)
(* publish resolves.                                                       *)
C37_SynchronousPublishTerminates ==
    /\ (pending /= {}) ~> C37_Settled
    /\ [](C37_Settled /\ C37_NeverThrows => C37_ResolvedWhenDone)

-----------------------------------------------------------------------------
(* The execution cache of one call of mount.execute: the prefetch of line  *)
(* 304, the lookups of getExecutionTaskResultCached and the commits of     *)
(* commitExecutionTaskResultCached, in any order the step engine may make  *)
(* them, while other invocations write to the store.  inv is the call:     *)
(* whether a function accepts the event, whether the store provides        *)
(* getExecutionTaskResults, the cache, and as history the result of the    *)
(* prefetch, the number of prefetch calls, the paths committed by the call *)
(* and the paths that the cache served.                                    *)

CacheExecution == ExecIds[1]

NotCalled ==
    [pc |-> "idle", targets |-> FALSE, provides |-> FALSE,
     cache |-> EmptyTasks, prefetch |-> EmptyTasks, prefetches |-> 0,
     committed |-> {}, served |-> {}]

\* the tasks of the execution: nothing, in progress, or committed
CacheEntries ==
    {TransactionEntry} \cup {ValueEntry(v) : v \in StoreValues}

CacheStores ==
    {(CacheExecution :> tasks) :
        tasks \in UNION {[paths -> CacheEntries] :
                             paths \in SUBSET StorePaths}}

CacheInit ==
    /\ store \in CacheStores
    /\ inv = NotCalled
    /\ last = Event0
    /\ mount = <<>>
    /\ mode \in Modes
    /\ net = {}
    /\ issued = 1
    /\ alsEnabled = FALSE
    /\ slots = {}
    /\ calls = NoCalls
    /\ deliveries = 0
    /\ pending = {}
    /\ faults = 0
    /\ reported = <<>>
    /\ returned = NotReturned

CacheUnchanged ==
    UNCHANGED <<mount, mode, net, issued, alsEnabled, slots, calls,
                deliveries, pending, faults, reported, returned>>

\* history: a call that mount.execute or the step engine made
CacheEv(type, p, v) ==
    [type |-> type, slot |-> 0, run |-> 0, step |-> 0, tid |-> p,
     taskId |-> NoTaskId, value |-> v]

(* mount.execute(event, context), lines 284-291: it returns at once when   *)
(* no function accepts the event                                           *)
CacheExecute(targets, provides) ==
    /\ inv.pc \in {"idle", "returned"}
    /\ inv' = [NotCalled EXCEPT
                  !.pc = IF targets THEN "prefetch" ELSE "returned",
                  !.targets = targets, !.provides = provides]
    /\ last' = CacheEv("execute", <<>>, Undefined)
    /\ UNCHANGED store
    /\ CacheUnchanged

(* lines 304-306 *)
CachePrefetch ==
    /\ inv.pc = "prefetch"
    /\ IF inv.provides
       THEN LET results == getExecutionTaskResults(store, CacheExecution)
            IN  /\ inv' = [inv EXCEPT !.pc = "running", !.cache = results,
                                      !.prefetch = results,
                                      !.prefetches = @ + 1]
                /\ last' = CacheEv("getExecutionTaskResults", <<>>, Undefined)
       ELSE /\ inv' = [inv EXCEPT !.pc = "running"]
            /\ last' = CacheEv("no prefetch", <<>>, Undefined)
    /\ UNCHANGED store
    /\ CacheUnchanged

\* variant: the cache is never consulted
Cached_Never(executionCache, taskId) == FALSE

\* executionCache[taskId] !== undefined
Cached(executionCache, taskId) ==
    /\ taskId \in DOMAIN executionCache
    /\ executionCache[taskId] /= Undefined

(* getExecutionTaskResultCached(executionCache, executionId, taskId),      *)
(* lines 94-106                                                            *)
CacheLookup(p) ==
    /\ inv.pc = "running"
    /\ IF Cached(inv.cache, p)
       THEN /\ inv' = [inv EXCEPT !.served = @ \cup {p}]
            /\ last' = CacheEv("cached", p, inv.cache[p])
       ELSE /\ last' = CacheEv("getExecutionTaskResult", p,
                               getExecutionTaskResult(store, CacheExecution,
                                                      p))
            /\ UNCHANGED inv
    /\ UNCHANGED store
    /\ CacheUnchanged

(* commitExecutionTaskResultCached(executionCache, executionId, taskId,    *)
(* value), lines 108-117, with the value of line 185                       *)
CacheCommit(p, result) ==
    /\ inv.pc = "running"
    /\ CacheExecution \in DOMAIN store
    /\ LET value == ToStored(result)
       IN  /\ inv' = [inv EXCEPT !.cache = (p :> value) @@ @,
                                 !.committed = @ \cup {p}]
           /\ store' = commitExecutionTaskResult(store, CacheExecution, p,
                                                 value)
           /\ last' = CacheEv("commitExecutionTaskResult", p, value)
    /\ CacheUnchanged

\* another invocation begins a task or disposes of the execution
CacheOtherInvocation ==
    /\ inv.pc = "running"
    /\ CacheExecution \in DOMAIN store
    /\ \/ \E p \in StorePaths :
            store' = beginExecutionTask(store, CacheExecution, p)
       \/ store' = disposeExecution(store, CacheExecution)
    /\ last' = CacheEv("other", <<>>, Undefined)
    /\ UNCHANGED inv
    /\ CacheUnchanged

\* mount.execute settles
CacheReturn ==
    /\ inv.pc = "running"
    /\ inv' = [inv EXCEPT !.pc = "returned"]
    /\ last' = CacheEv("returned", <<>>, Undefined)
    /\ UNCHANGED store
    /\ CacheUnchanged

CacheNext ==
    \/ \E targets \in BOOLEAN, provides \in BOOLEAN :
           CacheExecute(targets, provides)
    \/ CachePrefetch
    \/ \E p \in StorePaths : CacheLookup(p)
    \/ \E p \in StorePaths : \E result \in StoreValues \cup {Undefined} :
           CacheCommit(p, result)
    \/ CacheOtherInvocation
    \/ CacheReturn

SpecCache == CacheInit /\ [][CacheNext]_vars

-----------------------------------------------------------------------------
(* The prefetch and the read-through cache *)

\* the step engine has just called store.getExecutionTaskResult for a path
\* that the prefetch returned or that this call of mount.execute committed
C38_AskedForKnownPath ==
    /\ last'.type = "getExecutionTaskResult"
    /\ last'.tid \in DOMAIN inv.prefetch \cup inv.committed

\* original statement: a call of mount.execute that has returned made one
\* call of getExecutionTaskResults
C38_OncePerCall ==
    inv.pc = "returned" /\ inv.provides => inv.prefetches = 1

\* a call of mount.execute for an event that a function accepts made one
\* call of getExecutionTaskResults when it returns, and a call for an event
\* that no function accepts made none
C38_OncePerTargetedCall ==
    inv.pc = "returned" /\ inv.provides
        => inv.prefetches = IF inv.targets THEN 1 ELSE 0

\* original statement of C38
C38_PrefetchedOnceAlways ==
    []C38_OncePerCall /\ [][~C38_AskedForKnownPath]_vars

(* C38: when the store provides getExecutionTaskResults, each call of      *)
(* mount.execute for an event that at least one function accepts calls it  *)
(* exactly once (a call for an event that no function accepts returns      *)
(* before), and getExecutionTaskResult is never called for a path whose    *)
(* value is in the prefetch result or was committed earlier in the same    *)
(* call of mount.execute.                                                  *)
C38_PrefetchedOnceAndReadThrough ==
    []C38_OncePerTargetedCall /\ [][~C38_AskedForKnownPath]_vars

\* a call that prefetched once has returned after the cache served a path
\* of the prefetch result and a path the call had committed
C38_Witness ==
    /\ inv.pc = "returned"
    /\ inv.provides
    /\ inv.prefetches = 1
    /\ inv.served \cap DOMAIN inv.prefetch /= {}
    /\ inv.served \cap (inv.committed \ DOMAIN inv.prefetch) /= {}

====
